---- MODULE Spec2Model ----
(***************************************************************************)
(* State-machine model of the SSA interpreter of src/src/interpreter.c:    *)
(* the expression evaluator (eval_value), the phi resolver (eval_phi) and   *)
(* the control-flow driver (eval_body) with its handler scopes.            *)
(*                                                                         *)
(* Indices follow the C code: ip, storage indices and frame-local values   *)
(* are 0-based, labels and SSA ids in the IR are 1-based.  TLA+ sequences   *)
(* are 1-based, so Stmt(i) and Loc(L, i) do the index shift.               *)
(***************************************************************************)
EXTENDS Integers, Sequences, FiniteSets, TLC

\* ------------------------------------------------------------------------
\* Bounds of the model
\* ------------------------------------------------------------------------
\* number of free statements in front of the final Return of a generated unit
MaxLen == 2
\* cap on the height of the exception log
MaxExc == 3
\* cap on the number of nested eval_body frames
MaxFrames == 4

\* largest number of SSA values of the code units of the expression-level
\* specifications
MaxSSA == 2

\* the largest number of arguments of an invoke expression
MaxArgs == 2

\* the longest code unit of the phi reordering runs
MaxPhiUnit == 5

\* capacity of the backtrace buffer, and the largest ip of a captured frame
MaxSpace == 5
MaxIp == 4

\* number of slots of every modelled code unit (jl_source_nslots)
NSlots == 2

\* ------------------------------------------------------------------------
\* Runtime values (jl_value_t*): every value is a record [t, v]
\* ------------------------------------------------------------------------
NULL == [t |-> "null", v |-> 0]
IntV(n) == [t |-> "int", v |-> n]
jl_true == [t |-> "bool", v |-> 1]
jl_false == [t |-> "bool", v |-> 0]
jl_box_ssavalue(id) == [t |-> "ssavalue", v |-> id]
jl_box_ulong(n) == [t |-> "ulong", v |-> n]
\* a phi/phic node that reached eval_value as a statement: returned as is
NodeV(i) == [t |-> "node", v |-> i]
jl_nothing == [t |-> "Nothing", v |-> 0]

\* exceptions
UndefVarError(n) == [t |-> "UndefVarError", v |-> n]
TypeError == [t |-> "TypeError", v |-> 0]
InvalidSSAError == [t |-> "ErrorException:invalid SSAValue", v |-> 0]
InvalidSlotError == [t |-> "ErrorException:invalid slot", v |-> 0]
NoReturnError == [t |-> "ErrorException:body must terminate in return", v |-> 0]
UnsupportedError == [t |-> "ErrorException:unsupported or misplaced expression", v |-> 0]
SparamError == [t |-> "ErrorException:could not determine static parameter value", v |-> 0]

\* ------------------------------------------------------------------------
\* IR operands and statements
\* ------------------------------------------------------------------------
SSA(id) == [k |-> "ssa", n |-> id]
Slot(n) == [k |-> "slot", n |-> n]
Lit(n) == [k |-> "int", n |-> n]
TrueLit == [k |-> "bool", n |-> 1]
FalseLit == [k |-> "bool", n |-> 0]
\* an absent operand (a C NULL in an Upsilon or in a phi's value list)
NullOp == [k |-> "null", n |-> 0]
\* a global reference and a bare symbol, n numbering the name; both name a
\* binding of the one module modelled
GlobalRef(n) == [k |-> "globalref", n |-> n]
Symbol(n) == [k |-> "symbol", n |-> n]
\* Expr(:static_parameter, n)
StaticParameter(n) == [k |-> "static_parameter", n |-> n]
\* Expr(:isdefined, sym)
IsDefined(sym) == [k |-> "isdefined", n |-> 0, sym |-> sym]

MkStmt(op, a, n, edges, vals, f) ==
    [op |-> op, a |-> a, n |-> n, edges |-> edges, vals |-> vals, f |-> f]
Goto(l) == MkStmt("goto", NullOp, l, <<>>, <<>>, "")
GotoIfNot(c, l) == MkStmt("gotoifnot", c, l, <<>>, <<>>, "")
Return(a) == MkStmt("return", a, 0, <<>>, <<>>, "")
Upsilon(a) == MkStmt("upsilon", a, 0, <<>>, <<>>, "")
Assign(k, a) == MkStmt("assign", a, k, <<>>, <<>>, "")
Enter(l) == MkStmt("enter", NullOp, l, <<>>, <<>>, "")
Leave(n) == MkStmt("leave", NullOp, n, <<>>, <<>>, "")
PopExc(a) == MkStmt("pop_exception", a, 0, <<>>, <<>>, "")
NewVar(k) == MkStmt("newvar", NullOp, k, <<>>, <<>>, "")
Phi(edges, vals) == MkStmt("phi", NullOp, 0, edges, vals, "")
PhiC(vals) == MkStmt("phic", NullOp, 0, <<>>, vals, "")
\* Expr(:call, f, a) with f one of the callees of jl_apply modelled below
Call(f, a) == MkStmt("call", a, 0, <<>>, <<>>, f)
\* Expr(head, args...) with head one of the metadata heads
Expr(head, args) == MkStmt("expr", NullOp, 0, <<>>, args, head)
\* the symbols a top-level meta statement is compared with
jl_nospecialize_sym == Symbol(11)
jl_specialize_sym == Symbol(12)
jl_optlevel_sym == Symbol(13)
jl_compile_sym == Symbol(14)
jl_infer_sym == Symbol(15)
\* a statement that is a bare operand (literal, slot or SSA reference)
Value(a) == MkStmt("value", a, 0, <<>>, <<>>, "")

VARIABLES
    stmts,        \* the code unit's statement sequence (src->code)
    locals,       \* s->locals: [slots..., ssavalues...]
    ip,           \* s->ip / the running frame's ip
    frames,       \* the live eval_body frames, innermost last
    eh,           \* ct->eh: frame owning the innermost handler, 0 = outside
    continue_at,  \* s->continue_at
    excstack,     \* the task's exception log, oldest entry first
    status,       \* "run", "returned", "raised", "escaped", "abort", "crash",
                  \* "exit"
    result,       \* returned value or the exception that left the invocation
    ndebug,       \* TRUE when the build compiles the assert()s away
    init_locals,  \* ghost: storage at invocation entry
    wm,           \* ghost: watermark seen by the last execution of each Enter
    cleared,      \* ghost: slots invalidated by NewVariableScope, not assigned since
    last,         \* ghost: the statement executed by the last step
    src,          \* s->src: "code_info", or "null" when there is no code unit
    mi,           \* s->mi: "mi", or "null" for top-level code
    expr,         \* the expression handed to eval_value by an entry point
    dl,           \* the symbols the dynamic loader can resolve
    fx,           \* ghost: what the evaluation of expr did besides its value
    bt,           \* the backtrace buffer of jl_capture_interp_frame
    tasks,        \* the tasks of the two-task system, each with its own ct->eh
    phirun,       \* the target of an eval_phi call and the runs made of it
    toplevel,     \* TRUE when eval_body runs a top-level thunk
    module,       \* s->module: its bound names and its compiler settings
    sparam_vals,  \* s->sparam_vals: the bound static parameters, or NoSparams
    ofi           \* a call of addInitSymbol: its Interface I, ObjFileName, Counter

vars == <<stmts, locals, ip, frames, eh, continue_at, excstack, status,
          result, ndebug, init_locals, wm, cleared, last,
          src, mi, expr, dl, fx, bt, tasks, phirun,
          toplevel, module, sparam_vals, ofi>>

\* the state outside of the activation that eval_body runs
ext0 == <<src, mi, expr, dl, fx, bt, tasks, phirun, toplevel, sparam_vals,
          ofi>>
ext == <<ext0, module>>

\* no call of addInitSymbol is under way
NoCall == <<>>

ns == Len(stmts)
\* jl_source_nssavalues: one SSA value per statement
nssa == Len(stmts)
Stmt(i) == stmts[i + 1]
Loc(L, i) == L[i + 1]
SetLoc(L, i, v) == [L EXCEPT ![i + 1] = v]

\* ------------------------------------------------------------------------
\* eval_value
\* ------------------------------------------------------------------------
\* s->locals == NULL: an activation without storage
NoLocals == <<>>

Val(v) == [r |-> "val", v |-> v]
Exc(e) == [r |-> "raise", v |-> e]
Crash == [r |-> "crash", v |-> NULL]

Abort == [r |-> "abort", v |-> NULL]

\* what a read through an indeterminate pointer finds at an address that is
\* not mapped
Unmapped == [t |-> "unmapped", v |-> 0]

\* a module as jl_new_module leaves it but for its bindings: no setting made
NewModule ==
    [bound |-> {}, nospecialize |-> 0, optlevel |-> -1, compile |-> -1,
     infer |-> -1]

\* s->sparam_vals: a NULL pointer, or a vector of values
NoSparams == [null |-> TRUE, vals |-> <<>>]
SVec(vals) == [null |-> FALSE, vals |-> vals]
\* a static parameter that is still a type variable
TypeVarV == [t |-> "typevar", v |-> 0]

\* jl_boundp(m, var): whether the module has a value bound to the name
jl_boundp(m, var) == var \in m.bound

\* the isdefined branch of eval_value: sym is args[0]
eval_isdefined(sym, L) ==
    IF sym.k = "slot" THEN
        IF src = "null" \/ sym.n > NSlots \/ sym.n < 1 \/ L = NoLocals
        THEN Exc(InvalidSlotError)
        ELSE IF Loc(L, sym.n - 1) = Unmapped THEN Crash
        ELSE Val(IF Loc(L, sym.n - 1) # NULL THEN jl_true ELSE jl_false)
    ELSE IF sym.k \in {"globalref", "symbol"}
    THEN Val(IF jl_boundp(module, sym.n) THEN jl_true ELSE jl_false)
    ELSE IF sym.k = "static_parameter" THEN
        IF sym.n <= 0 /\ ~ndebug THEN Abort
        ELSE IF ~sparam_vals.null /\ sym.n >= 1 /\ sym.n <= Len(sparam_vals.vals)
        THEN Val(IF sparam_vals.vals[sym.n] # TypeVarV THEN jl_true ELSE jl_false)
        ELSE Exc(SparamError)
    ELSE IF ndebug THEN Val(jl_false) ELSE Abort

\* eval_value reading slot n from storage index n (the 1-based number unshifted)
eval_value_m(e, L) ==
    IF e.k = "ssa" THEN
        LET id == e.n - 1 IN
        IF src = "null" \/ id >= nssa \/ id < 0 \/ L = NoLocals
        THEN Exc(InvalidSSAError)
        ELSE Val(Loc(L, NSlots + id))
    ELSE IF e.k = "slot" THEN
        IF src = "null" \/ e.n > NSlots \/ e.n < 1 \/ L = NoLocals
        THEN Exc(InvalidSlotError)
        ELSE IF Loc(L, e.n) = NULL THEN Exc(UndefVarError(e.n))
        ELSE Val(Loc(L, e.n))
    ELSE IF e.k = "bool" THEN Val(IF e.n = 1 THEN jl_true ELSE jl_false)
    ELSE IF e.k = "int" THEN Val(IntV(e.n))
    ELSE Val(NULL)

eval_value(e, L) ==
    IF e.k = "ssa" THEN
        LET id == e.n - 1 IN
        IF src = "null" \/ id >= nssa \/ id < 0 \/ L = NoLocals
        THEN Exc(InvalidSSAError)
        ELSE Val(Loc(L, NSlots + id))
    ELSE IF e.k = "slot" THEN
        IF src = "null" \/ e.n > NSlots \/ e.n < 1 \/ L = NoLocals
        THEN Exc(InvalidSlotError)
        ELSE IF Loc(L, e.n - 1) = NULL THEN Exc(UndefVarError(e.n))
        ELSE Val(Loc(L, e.n - 1))
    ELSE IF e.k = "bool" THEN Val(IF e.n = 1 THEN jl_true ELSE jl_false)
    ELSE IF e.k = "int" THEN Val(IntV(e.n))
    ELSE IF e.k = "isdefined" THEN eval_isdefined(e.sym, L)
    ELSE Val(NULL)

\* jl_apply on the two callees the modelled units use; a NULL argument
\* makes the dispatch dereference a null pointer
jl_apply(f, arg) ==
    IF arg = NULL THEN Crash
    ELSE IF f = "throw" THEN Exc(arg)
    ELSE Val(arg)

\* do_call: evaluate the operand, then apply
do_call(f, a, L) ==
    LET r == eval_value(a, L) IN
    IF r.r # "val" THEN r ELSE jl_apply(f, r.v)

\* the heads eval_value answers with jl_nothing
NoOpHeads ==
    {"meta", "coverageeffect", "inbounds", "loopinfo", "aliasscope",
     "popaliasscope", "inline", "noinline", "gc_preserve_begin",
     "gc_preserve_end"}

\* eval_value answering every metadata head with jl_nothing
eval_meta_m(head) == Val(jl_nothing)

\* eval_value on Expr(head, ...) for the metadata heads
eval_meta(head) ==
    IF head = "boundscheck" THEN Val(jl_true)
    ELSE IF head \in NoOpHeads THEN Val(jl_nothing)
    ELSE Exc(UnsupportedError)

\* eval_value on a whole statement (the value eval_stmt_value stores)
eval_expr(st, i, L) ==
    IF st.op = "call" THEN do_call(st.f, st.a, L)
    ELSE IF st.op = "expr" THEN eval_meta(st.f)
    ELSE IF st.op \in {"phi", "phic"} THEN Val(NodeV(i))
    ELSE eval_value(st.a, L)

\* ------------------------------------------------------------------------
\* eval_phi
\* ------------------------------------------------------------------------
\* number of consecutive phi-nodes starting at index i
RECURSIVE CountPhi(_)
CountPhi(i) ==
    IF i < ns /\ Stmt(i).op = "phi" THEN 1 + CountPhi(i + 1) ELSE 0

\* ScanEdges comparing the 1-based edge entry with the 0-based from
RECURSIVE ScanEdges_m(_, _, _, _, _, _)
ScanEdges_m(edges, j, edge, closest, from, hi) ==
    IF j >= Len(edges) THEN [edge |-> edge, closest |-> closest]
    ELSE LET edge_from == edges[j + 1] IN
         IF edge_from = from
         THEN ScanEdges_m(edges, j + 1, IF edge = -1 THEN j ELSE edge,
                          closest, from, hi)
         ELSE IF closest < edge_from /\ edge_from < hi
         THEN ScanEdges_m(edges, j + 1, j, edge_from, from, hi)
         ELSE ScanEdges_m(edges, j + 1, edge, closest, from, hi)

\* ScanEdges letting an implicit entry in only while nothing is chosen
RECURSIVE ScanEdges_first(_, _, _, _, _, _)
ScanEdges_first(edges, j, edge, closest, from, hi) ==
    IF j >= Len(edges) THEN [edge |-> edge, closest |-> closest]
    ELSE LET edge_from == edges[j + 1] IN
         IF edge_from = from + 1
         THEN ScanEdges_first(edges, j + 1, IF edge = -1 THEN j ELSE edge,
                              closest, from, hi)
         ELSE IF closest < edge_from /\ edge_from < hi /\ edge = -1
         THEN ScanEdges_first(edges, j + 1, j, edge_from, from, hi)
         ELSE ScanEdges_first(edges, j + 1, edge, closest, from, hi)

\* ScanEdges taking the last explicit entry instead of the first
RECURSIVE ScanEdges_last(_, _, _, _, _, _)
ScanEdges_last(edges, j, edge, closest, from, hi) ==
    IF j >= Len(edges) THEN [edge |-> edge, closest |-> closest]
    ELSE LET edge_from == edges[j + 1] IN
         IF edge_from = from + 1
         THEN ScanEdges_last(edges, j + 1, j, closest, from, hi)
         ELSE IF closest < edge_from /\ edge_from < hi
         THEN ScanEdges_last(edges, j + 1, j, edge_from, from, hi)
         ELSE ScanEdges_last(edges, j + 1, edge, closest, from, hi)

\* the loop over one phi's edge list (j is the 0-based index into edges):
\* the first explicit entry from+1 is taken when nothing was chosen yet, an
\* implicit fall-through entry nearer than `closest` always replaces the choice
RECURSIVE ScanEdges(_, _, _, _, _, _)
ScanEdges(edges, j, edge, closest, from, hi) ==
    IF j >= Len(edges) THEN [edge |-> edge, closest |-> closest]
    ELSE LET edge_from == edges[j + 1] IN
         IF edge_from = from + 1
         THEN ScanEdges(edges, j + 1, IF edge = -1 THEN j ELSE edge,
                        closest, from, hi)
         ELSE IF closest < edge_from /\ edge_from < hi
         THEN ScanEdges(edges, j + 1, j, edge_from, from, hi)
         ELSE ScanEdges(edges, j + 1, edge, closest, from, hi)

\* dest[j] = phis[j] for j < n, dest being storage index d
RECURSIVE CommitPhis(_, _, _, _)
CommitPhis(L, d, phis, n) ==
    IF n = 0 THEN L
    ELSE SetLoc(CommitPhis(L, d, phis, n - 1), d + n - 1, phis[n])

\* the promotion of an implicit branch leaving the collected values in place
ShiftPhis_m(phis, n, i) == phis

\* the promotion of an implicit branch: phis[j - n] = phis[j]; phis[j] = NULL
\* for j = n .. i-1, in increasing order (k is the 0-based index)
ShiftPhis(phis, n, i) ==
    [k1 \in 1..Len(phis) |->
        LET k == k1 - 1 IN
        IF k < i - n THEN phis[k + n + 1]
        ELSE IF k >= n /\ k < i THEN NULL
        ELSE phis[k1]]

\* the main loop writing every value into its SSA cell as soon as it is
\* evaluated instead of collecting the values of a block first
RECURSIVE PhiLoop_m(_)
PhiLoop_m(p) ==
    IF p.i >= p.nphi
    THEN [r |-> "val", L |-> CommitPhis(p.L, p.dest, p.phis, p.nphi), v |-> NULL]
    ELSE
      LET e == Stmt(p.to + p.i)
          sc == ScanEdges(e.edges, 0, -1, p.to, p.from, p.to + p.i + 1)
          n_oldphi == sc.closest - p.to
          q == IF n_oldphi # 0
               THEN [from |-> sc.closest - 1,
                     to |-> p.to + n_oldphi,
                     i |-> p.i - n_oldphi,
                     nphi |-> p.nphi - n_oldphi,
                     dest |-> p.dest + n_oldphi,
                     phis |-> ShiftPhis(p.phis, n_oldphi, p.i),
                     L |-> CommitPhis(p.L, p.dest, p.phis, n_oldphi)]
               ELSE p
          val == IF sc.edge # -1 /\ e.vals[sc.edge + 1] # NullOp
                 THEN eval_value(e.vals[sc.edge + 1], q.L)
                 ELSE Val(NULL)
      IN IF val.r # "val"
         THEN [r |-> val.r, L |-> q.L, v |-> val.v]
         ELSE PhiLoop_m([q EXCEPT !.phis[q.i + 1] = val.v, !.i = q.i + 1,
                                  !.L = SetLoc(q.L, q.dest + q.i, val.v)])

\* the main loop of eval_phi; p = [from, to, i, nphi, dest, phis, L]
RECURSIVE PhiLoop(_)
PhiLoop(p) ==
    IF p.i >= p.nphi
    THEN [r |-> "val", L |-> CommitPhis(p.L, p.dest, p.phis, p.nphi), v |-> NULL]
    ELSE
      LET e == Stmt(p.to + p.i)
          sc == ScanEdges(e.edges, 0, -1, p.to, p.from, p.to + p.i + 1)
          n_oldphi == sc.closest - p.to
          q == IF n_oldphi # 0
               THEN [from |-> sc.closest - 1,
                     to |-> p.to + n_oldphi,
                     i |-> p.i - n_oldphi,
                     nphi |-> p.nphi - n_oldphi,
                     dest |-> p.dest + n_oldphi,
                     phis |-> ShiftPhis(p.phis, n_oldphi, p.i),
                     L |-> CommitPhis(p.L, p.dest, p.phis, n_oldphi)]
               ELSE p
          val == IF sc.edge # -1 /\ e.vals[sc.edge + 1] # NullOp
                 THEN eval_value(e.vals[sc.edge + 1], q.L)
                 ELSE Val(NULL)
      IN IF val.r # "val"
         THEN [r |-> val.r, L |-> q.L, v |-> val.v]
         ELSE PhiLoop([q EXCEPT !.phis[q.i + 1] = val.v, !.i = q.i + 1])

\* eval_phi(stmts, s, ns, to) with s->ip = from and storage L:
\* [r, L, v, ip] where ip is the index just past the run of phi-nodes
eval_phi(L, from, to) ==
    LET nphi == CountPhi(to) IN
    IF nphi = 0 THEN [r |-> "val", L |-> L, v |-> NULL, ip |-> to]
    ELSE LET res == PhiLoop([from |-> from, to |-> to, i |-> 0, nphi |-> nphi,
                             dest |-> NSlots + to,
                             phis |-> [k \in 1..nphi |-> NULL], L |-> L])
         IN [r |-> res.r, L |-> res.L, v |-> res.v, ip |-> to + nphi]

\* ------------------------------------------------------------------------
\* Handler-scope stack (jl_handler_t list headed by ct->eh)
\* ------------------------------------------------------------------------
\* an eval_body frame: its local catch_ip and the prev link of its __eh;
\* enter_ip and depth0 are ghosts: the Enter the frame executed last and the
\* depth of the handler stack right before that Enter
NewFrame == [catch_ip |-> 0, prev |-> 0, enter_ip |-> -1, depth0 |-> 0]

\* number of entries reachable from handler e (at most fuel are counted)
RECURSIVE ChainLen(_, _, _)
ChainLen(fr, e, fuel) ==
    IF e = 0 \/ e > Len(fr) \/ fuel = 0 THEN 0
    ELSE 1 + ChainLen(fr, fr[e].prev, fuel - 1)

Depth == ChainLen(frames, eh, MaxFrames + 1)

\* the leave handler without its walk down the handler list
WalkPrev_m(e, n) == e

\* the loop `while (--hand_n_leave > 0) eh = eh->prev;` of the leave handler
RECURSIVE WalkPrev(_, _)
WalkPrev(e, n) ==
    IF n <= 1 \/ e = 0 THEN e ELSE WalkPrev(frames[e].prev, n - 1)

\* jl_excstack_state and jl_restore_excstack
jl_excstack_state(xs) == Len(xs)
jl_restore_excstack(xs, state) == SubSeq(xs, 1, state)

\* the jump that keeps the eval_body frames above the one it lands in
Unwind_m(e) == frames

\* jl_longjmp(eh->eh_ctx, 1) to handler e: the eval_body frames above the
\* one that owns the handler are gone
Unwind(e) == SubSeq(frames, 1, e)

\* the handlers reachable from handler e (at most fuel of them)
RECURSIVE Chain(_, _)
Chain(e, fuel) ==
    IF e = 0 \/ e > Len(frames) \/ fuel = 0 THEN {}
    ELSE {e} \cup Chain(frames[e].prev, fuel - 1)

\* Enter storing the height of an empty exception log
EnterWatermark_m(xs) == jl_box_ulong(0)

\* the value Enter stores for pop_exception
EnterWatermark(xs) == jl_box_ulong(jl_excstack_state(xs))

\* ------------------------------------------------------------------------
\* eval_body: shared continuations
\* ------------------------------------------------------------------------
Ev(op, out, nxt) ==
    [op |-> op, ip |-> ip, frame |-> Len(frames), out |-> out, nxt |-> nxt]

\* the invocation ends: st is "returned", "raised", "escaped", "abort", "crash"
HaltC(st, v, L, xs, op, cl, m) ==
    /\ status' = st
    /\ result' = v
    /\ locals' = L
    /\ excstack' = xs
    /\ cleared' = cl
    /\ last' = Ev(op, st, -1)
    /\ module' = m
    /\ UNCHANGED <<ext0, stmts, ip, frames, eh, continue_at, ndebug, init_locals, wm>>

Halt(st, v, L, xs, op) == HaltC(st, v, L, xs, op, cleared, module)

\* the resumption without the test of s->continue_at
ResumeIp_m(e, ca) == frames[e].catch_ip

\* what the frame owning handler e does when its jl_setjmp returns non-zero,
\* ca being s->continue_at at that moment
ResumeIp(e, ca) == IF ca # 0 THEN ca ELSE frames[e].catch_ip

\* jl_throw(exc) with storage L and exception log xs: the exception is
\* logged, then control jumps to the innermost handler, or leaves the
\* invocation when that handler lies outside of it
RaiseC(L, exc, xs, op, cl, m) ==
    /\ Len(xs) < MaxExc
    /\ IF eh = 0
       THEN HaltC("raised", exc, L, Append(xs, exc), op, cl, m)
       ELSE /\ excstack' = Append(xs, exc)
            /\ locals' = L
            /\ frames' = Unwind(eh)
            /\ ip' = ResumeIp(eh, continue_at)
            /\ continue_at' = 0
            /\ cleared' = cl
            /\ last' = Ev(op, "raise", -1)
            /\ module' = m
            /\ UNCHANGED <<ext0, stmts, eh, status, result, ndebug, init_locals, wm>>

Raise(L, exc, xs, op) == RaiseC(L, exc, xs, op, cleared, module)

\* ghost: the invalidated slots once the statement at ip has had its effect
ClearedAfter ==
    IF Stmt(ip).op = "newvar" THEN cleared \cup {Stmt(ip).n}
    ELSE IF Stmt(ip).op = "assign" THEN cleared \ {Stmt(ip).n}
    ELSE cleared

\* the directive of a top-level meta statement with arguments args applied
\* to module m: jl_set_module_nospecialize, _optlevel, _compile, _infer
SetModule(m, args) ==
    IF Len(args) = 1 /\ args[1] = jl_nospecialize_sym
    THEN [m EXCEPT !.nospecialize = 1]
    ELSE IF Len(args) = 1 /\ args[1] = jl_specialize_sym
    THEN [m EXCEPT !.nospecialize = 0]
    ELSE IF Len(args) = 2 /\ args[2].k = "int"
    THEN IF args[1] = jl_optlevel_sym THEN [m EXCEPT !.optlevel = args[2].n]
         ELSE IF args[1] = jl_compile_sym THEN [m EXCEPT !.compile = args[2].n]
         ELSE IF args[1] = jl_infer_sym THEN [m EXCEPT !.infer = args[2].n]
         ELSE m
    ELSE m

\* the module once the statement at ip has had its effect: only a meta
\* statement of a top-level thunk touches it
ModuleAfter ==
    IF toplevel /\ Stmt(ip).op = "expr" /\ Stmt(ip).f = "meta"
    THEN SetModule(module, Stmt(ip).vals)
    ELSE module

\* `ip = eval_phi(stmts, s, ns, next_ip)` at the bottom of the driver loop,
\* the statement at ip having left storage L and exception log xs
Advance(L, next_ip, xs, op) ==
    LET r == eval_phi(L, ip, next_ip) IN
    IF r.r = "val"
    THEN /\ locals' = r.L
         /\ ip' = r.ip
         /\ excstack' = xs
         /\ cleared' = ClearedAfter
         /\ last' = Ev(op, "next", next_ip)
         /\ module' = ModuleAfter
         /\ UNCHANGED <<ext0, stmts, frames, eh, continue_at, status, result,
                        ndebug, init_locals, wm>>
    ELSE RaiseC(r.L, r.v, xs, op, ClearedAfter, ModuleAfter)

Fetch(op) == status = "run" /\ ip < ns /\ Stmt(ip).op = op

\* ------------------------------------------------------------------------
\* eval_body: one action per statement kind
\* ------------------------------------------------------------------------
\* ip >= ns: "`body` expression must terminate in `return`"
RunOffEnd ==
    /\ status = "run"
    /\ ip >= ns
    /\ Raise(locals, NoReturnError, excstack, "end")

\* a phi or phic node fetched as a statement: the asserts stop a debug
\* build; otherwise eval_stmt_value stores the node itself
StrayPhiStmt ==
    /\ status = "run" /\ ip < ns
    /\ Stmt(ip).op \in {"phi", "phic"}
    /\ IF ~ndebug
       THEN Halt("abort", NULL, locals, excstack, Stmt(ip).op)
       ELSE Advance(SetLoc(locals, NSlots + ip, NodeV(ip)), ip + 1, excstack,
                    Stmt(ip).op)

GotoStmt ==
    /\ Fetch("goto")
    /\ Advance(locals, Stmt(ip).n - 1, excstack, "goto")

\* ConditionalGoto branching on true instead of false
GotoIfNotStmt_m ==
    /\ Fetch("gotoifnot")
    /\ LET cond == eval_value(Stmt(ip).a, locals) IN
       IF cond.r = "raise" THEN Raise(locals, cond.v, excstack, "gotoifnot")
       ELSE IF cond.v = jl_true
       THEN Advance(locals, Stmt(ip).n - 1, excstack, "gotoifnot")
       ELSE IF cond.v # jl_false
       THEN Raise(locals, TypeError, excstack, "gotoifnot")
       ELSE Advance(locals, ip + 1, excstack, "gotoifnot")

GotoIfNotStmt ==
    /\ Fetch("gotoifnot")
    /\ LET cond == eval_value(Stmt(ip).a, locals) IN
       IF cond.r = "raise" THEN Raise(locals, cond.v, excstack, "gotoifnot")
       ELSE IF cond.v = jl_false
       THEN Advance(locals, Stmt(ip).n - 1, excstack, "gotoifnot")
       ELSE IF cond.v # jl_true
       THEN Raise(locals, TypeError, excstack, "gotoifnot")
       ELSE Advance(locals, ip + 1, excstack, "gotoifnot")

ReturnStmt ==
    /\ Fetch("return")
    /\ LET v == eval_value(Stmt(ip).a, locals) IN
       IF v.r = "raise" THEN Raise(locals, v.v, excstack, "return")
       ELSE Halt("returned", v.v, locals, excstack, "return")

\* the Upsilon storing the value in its own SSA cell as well
UpsilonStore_m(L, id, val) == SetLoc(SetLoc(L, NSlots + id, val), NSlots + ip, val)

\* s->locals[jl_source_nslots(s->src) + id] = val
UpsilonStore(L, id, val) == SetLoc(L, NSlots + id, val)

UpsilonStmt ==
    /\ Fetch("upsilon")
    /\ LET val == IF Stmt(ip).a = NullOp THEN Val(NULL)
                  ELSE eval_value(Stmt(ip).a, locals)
           phic == Loc(locals, NSlots + ip)
       IN IF val.r = "raise" THEN Raise(locals, val.v, excstack, "upsilon")
          ELSE IF phic.t # "ssavalue"
          THEN Halt(IF ndebug THEN "crash" ELSE "abort", NULL, locals,
                    excstack, "upsilon")
          ELSE Advance(UpsilonStore(locals, phic.v - 1, val.v), ip + 1,
                       excstack, "upsilon")

\* the assignment storing the value in the statement's SSA cell as well
AssignSlot_m(L, n, rhs) == SetLoc(SetLoc(L, n - 1, rhs), NSlots + ip, rhs)

\* s->locals[n - 1] = rhs
AssignSlot(L, n, rhs) == SetLoc(L, n - 1, rhs)

AssignStmt ==
    /\ Fetch("assign")
    /\ LET rhs == eval_value(Stmt(ip).a, locals)
           n == Stmt(ip).n
       IN IF rhs.r = "raise" THEN Raise(locals, rhs.v, excstack, "assign")
          ELSE IF ~(n <= NSlots /\ n > 0)
          THEN Halt(IF ndebug THEN "crash" ELSE "abort", NULL, locals,
                    excstack, "assign")
          ELSE Advance(AssignSlot(locals, n, rhs.v), ip + 1, excstack,
                       "assign")

\* NewVariableScope clearing storage index n instead of n - 1
ClearSlot_m(L, n) == SetLoc(L, n, NULL)

\* s->locals[n - 1] = NULL
ClearSlot(L, n) == SetLoc(L, n - 1, NULL)

NewVarStmt ==
    /\ Fetch("newvar")
    /\ LET n == Stmt(ip).n IN
       IF ~(n <= NSlots /\ n > 0)
       THEN Halt(IF ndebug THEN "crash" ELSE "abort", NULL, locals, excstack,
                 "newvar")
       ELSE Advance(ClearSlot(locals, n), ip + 1, excstack, "newvar")

\* every other statement: eval_stmt_value
\* eval_stmt_value storing into the slot of the same number
eval_stmt_value_m(L, i, res) == SetLoc(L, i, res)

\* eval_stmt_value: s->locals[jl_source_nslots(s->src) + s->ip] = res
eval_stmt_value(L, i, res) == SetLoc(L, NSlots + i, res)

ExprStmt ==
    /\ status = "run" /\ ip < ns
    /\ Stmt(ip).op \in {"call", "value"}
    /\ LET res == eval_expr(Stmt(ip), ip, locals) IN
       IF res.r = "raise" THEN Raise(locals, res.v, excstack, Stmt(ip).op)
       ELSE IF res.r = "crash"
       THEN Halt("crash", NULL, locals, excstack, Stmt(ip).op)
       ELSE Advance(eval_stmt_value(locals, ip, res.v), ip + 1, excstack,
                    Stmt(ip).op)

\* an Expr statement with a metadata head: in a top-level thunk a meta
\* statement is taken as a compiler directive for the module and nothing
\* is stored; every other one goes through eval_stmt_value
MetaStmt ==
    /\ Fetch("expr")
    /\ IF toplevel /\ Stmt(ip).f = "meta"
       THEN Advance(locals, ip + 1, excstack, "expr")
       ELSE LET res == eval_expr(Stmt(ip), ip, locals) IN
            IF res.r = "raise" THEN Raise(locals, res.v, excstack, "expr")
            ELSE Advance(eval_stmt_value(locals, ip, res.v), ip + 1, excstack,
                         "expr")

PopExceptionStmt ==
    /\ Fetch("pop_exception")
    /\ LET v == eval_value(Stmt(ip).a, locals) IN
       IF v.r = "raise" THEN Raise(locals, v.v, excstack, "pop_exception")
       ELSE IF v.v.t # "ulong" \/ v.v.v > Len(excstack)
       THEN Halt(IF ndebug THEN "crash" ELSE "abort", NULL, locals, excstack,
                 "pop_exception")
       ELSE Advance(locals, ip + 1, jl_restore_excstack(excstack, v.v.v),
                    "pop_exception")

\* the pre-scan of the catch block for PhiC nodes: every Upsilon a PhiC
\* lists gets a reference to that PhiC in its own SSA slot, the PhiC slot is
\* cleared; returns the storage and the index past the run of PhiC nodes
RECURSIVE MarkUpsilons(_, _, _, _)
MarkUpsilons(L, vals, i, c) ==
    IF i >= Len(vals) THEN L
    ELSE MarkUpsilons(SetLoc(L, NSlots + vals[i + 1].n - 1,
                             jl_box_ssavalue(c + 1)), vals, i + 1, c)

\* Enter without the pre-scan of the catch block
ScanPhiC_m(L, c) == [L |-> L, catch_ip |-> c]

RECURSIVE ScanPhiC(_, _)
ScanPhiC(L, c) ==
    IF c < ns /\ Stmt(c).op = "phic"
    THEN ScanPhiC(SetLoc(MarkUpsilons(L, Stmt(c).vals, 0, c), NSlots + c, NULL),
                  c + 1)
    ELSE [L |-> L, catch_ip |-> c]

\* the asserts of the pre-scan: every value of a PhiC names an Upsilon
RECURSIVE PhiCValuesOk(_)
PhiCValuesOk(c) ==
    IF c < ns /\ c >= 0 /\ Stmt(c).op = "phic"
    THEN /\ \A i \in 1..Len(Stmt(c).vals) :
              LET v == Stmt(c).vals[i] IN
              /\ v.k = "ssa" /\ v.n >= 1 /\ v.n <= ns
              /\ Stmt(v.n - 1).op = "upsilon"
         /\ PhiCValuesOk(c + 1)
    ELSE TRUE

EnterStmt ==
    /\ Fetch("enter")
    /\ Len(frames) < MaxFrames
    /\ LET f == Len(frames)
           first == Stmt(ip).n - 1
       IN IF first < 0 \/ ~PhiCValuesOk(first)
          THEN Halt(IF ndebug THEN "crash" ELSE "abort", NULL, locals,
                    excstack, "enter")
          ELSE LET sc == ScanPhiC(locals, first) IN
               /\ locals' = SetLoc(sc.L, NSlots + ip, EnterWatermark(excstack))
               /\ frames' = Append([frames EXCEPT ![f] =
                                       [catch_ip |-> sc.catch_ip, prev |-> eh,
                                        enter_ip |-> ip, depth0 |-> Depth]],
                                   NewFrame)
               /\ eh' = f
               /\ ip' = ip + 1
               /\ wm' = [wm EXCEPT ![ip] = jl_excstack_state(excstack)]
               /\ last' = Ev("enter", "next", ip + 1)
               /\ UNCHANGED <<ext, stmts, continue_at, excstack, status, result,
                              ndebug, init_locals, cleared>>

\* the leave handler whose resumption keeps s->continue_at
LeaveStmt_m ==
    /\ Fetch("leave")
    /\ LET hand_n_leave == Stmt(ip).n
           e == WalkPrev(eh, hand_n_leave)
           next_ip == ip + 1
       IN IF hand_n_leave <= 0 /\ ~ndebug
          THEN Halt("abort", NULL, locals, excstack, "leave")
          ELSE IF e = 0
          THEN /\ continue_at' = next_ip
               /\ status' = "escaped"
               /\ last' = Ev("leave", "escaped", next_ip)
               /\ UNCHANGED <<ext, stmts, locals, ip, frames, eh, excstack, result,
                              ndebug, init_locals, wm, cleared>>
          ELSE /\ eh' = frames[e].prev
               /\ frames' = Unwind(e)
               /\ ip' = ResumeIp(e, next_ip)
               /\ continue_at' = next_ip
               /\ last' = Ev("leave", "leave", next_ip)
               /\ UNCHANGED <<ext, stmts, locals, excstack, status, result, ndebug,
                              init_locals, wm, cleared>>

LeaveStmt ==
    /\ Fetch("leave")
    /\ LET hand_n_leave == Stmt(ip).n
           e == WalkPrev(eh, hand_n_leave)
           next_ip == ip + 1
       IN IF hand_n_leave <= 0 /\ ~ndebug
          THEN Halt("abort", NULL, locals, excstack, "leave")
          ELSE IF e = 0
          THEN \* the jump lands in a handler that is not of this invocation
               /\ continue_at' = next_ip
               /\ status' = "escaped"
               /\ last' = Ev("leave", "escaped", next_ip)
               /\ UNCHANGED <<ext, stmts, locals, ip, frames, eh, excstack, result,
                              ndebug, init_locals, wm, cleared>>
          ELSE /\ eh' = frames[e].prev
               /\ frames' = Unwind(e)
               /\ ip' = ResumeIp(e, next_ip)
               /\ continue_at' = 0
               /\ last' = Ev("leave", "leave", next_ip)
               /\ UNCHANGED <<ext, stmts, locals, excstack, status, result, ndebug,
                              init_locals, wm, cleared>>

\* ------------------------------------------------------------------------
\* The code units and arguments the model runs
\* ------------------------------------------------------------------------
\* operands of the generated units; SSA(n) in a unit of n statements is a
\* reference to a value that is defined last
Operands(n) == {Slot(1), Slot(2), SSA(1), SSA(n), Lit(1)}

\* statements allowed at 1-based position p of a generated unit of n
\* statements: branches only point forward
FwdStmts(p, n) ==
    {Goto(l) : l \in (p + 1)..n}
    \cup {GotoIfNot(c, l) : c \in {Slot(1), SSA(1)}, l \in (p + 1)..n}
    \cup {Return(a) : a \in {Slot(2), Lit(1)}}
    \cup {Assign(k, a) : k \in {1, 2}, a \in {Lit(3), Slot(2)}}
    \cup {NewVar(k) : k \in {1, 2}}
    \cup {Call("throw", Lit(7)), Call("identity", Slot(1)), Value(SSA(n))}

\* all units of n statements: n-1 generated statements and a final Return
RECURSIVE FwdPrefixes(_, _)
FwdPrefixes(p, n) ==
    IF p = 0 THEN {<<>>}
    ELSE {Append(pre, st) : pre \in FwdPrefixes(p - 1, n), st \in FwdStmts(p, n)}

ForwardUnits ==
    UNION {{Append(pre, Return(a)) : pre \in FwdPrefixes(n - 1, n),
                                     a \in Operands(n)} : n \in 1..(MaxLen + 1)}

\* one phi merging two predecessors, each edge with its own value
PhiValues == {<<Lit(1), Lit(2)>>, <<Lit(2), Lit(1)>>, <<SSA(2), Slot(2)>>,
              <<Lit(1), NullOp>>}
PhiUnits ==
    \* predecessors: the taken ConditionalGoto (1) and the fall-through (2)
    {<<GotoIfNot(Slot(1), 3), Value(Lit(5)), Phi(<<1, 2>>, v), Return(SSA(3))>>
        : v \in PhiValues}
    \cup {<<GotoIfNot(Slot(1), 3), Value(Lit(5)), Phi(<<2, 1>>, v),
            Return(SSA(3))>> : v \in PhiValues}
    \* predecessors: a Goto (2) and the fall-through (3)
    \cup {<<GotoIfNot(Slot(1), 3), Goto(4), Value(Lit(6)),
            Phi(<<2, 3>>, v), Return(SSA(4))>> : v \in PhiValues}
    \* a loop header: entered by fall-through (1) and by the back edge (5)
    \cup {<<Value(Lit(4)), Phi(<<1, 5>>, v), GotoIfNot(Slot(1), 6),
            Assign(1, FalseLit), Goto(2), Return(SSA(2))>> : v \in PhiValues}

\* statements of a protected region
BodyStmts == {Value(Slot(2)), Call("throw", Lit(7)), Assign(2, Lit(9)),
              Call("identity", Slot(1)), NewVar(2)}

\* try b1; b2 catch end
TryCatchUnits ==
    {<<Enter(6), b1, b2, Leave(1), Goto(8),
       Leave(1), PopExc(SSA(1)), Return(Lit(1))>>
        : b1 \in BodyStmts, b2 \in BodyStmts}

\* two nested regions left at once by Leave(2); the inner catch block raises
\* again or not
NestedUnits ==
    {<<Enter(10), Enter(7), b1, b2, Leave(2), Goto(13),
       Leave(1), PopExc(SSA(2)), b3, Leave(1), Goto(13),
       Leave(1), PopExc(SSA(1)), Return(Lit(1))>>
        : b1 \in BodyStmts, b2 \in {Value(Lit(0)), Call("throw", Lit(8))},
          b3 \in {Value(Slot(2)), Value(Lit(0))}}

\* a protected region inside a loop that runs at most twice
LoopUnits ==
    {<<Enter(5), b1, Leave(1), Goto(7),
       Leave(1), PopExc(SSA(1)),
       GotoIfNot(Slot(1), 10), Assign(1, FalseLit), Goto(1),
       Return(Lit(0))>> : b1 \in BodyStmts}

\* a value carried into the catch block by Upsilon/PhiC
PhiCUnits ==
    {<<Enter(7), Upsilon(a), b1, Upsilon(Slot(1)), Leave(1), Goto(10),
       PhiC(<<SSA(2), SSA(4)>>), Leave(1), PopExc(SSA(1)), Return(SSA(7))>>
        : a \in {Lit(3), NullOp}, b1 \in BodyStmts}

\* a raise before the Upsilon of the region has run: the PhiC is empty
\* two values carried into the catch block, each by its own PhiC
TwoPhiCUnits ==
    {<<Enter(7), Upsilon(a), Upsilon(Slot(1)), b1, Leave(1), Goto(11),
       PhiC(<<SSA(2)>>), PhiC(<<SSA(3)>>), Leave(1), PopExc(SSA(1)),
       Return(SSA(8))>>
        : a \in {Lit(3), NullOp}, b1 \in {Call("throw", Lit(7)), Value(Slot(2))}}

EarlyThrowUnits ==
    {<<Enter(6), Call("throw", x), Upsilon(Lit(3)), Leave(1), Goto(9),
       PhiC(<<SSA(3)>>), Leave(1), PopExc(SSA(1)), Return(SSA(6))>>
        : x \in {Lit(7), Slot(1)}}

\* a second protected region inside a catch block, entered while the
\* exception of the first one is still logged
CatchTryUnits ==
    {<<Enter(5), Call("throw", Lit(7)), Leave(1), Goto(13),
       Leave(1), Enter(10), b1, Leave(1), Goto(11),
       Leave(1), PopExc(SSA(6)), PopExc(SSA(1)), Return(Lit(1))>>
        : b1 \in BodyStmts}

\* a protected region in which the interpreter itself finds a fault: a
\* reference out of range, or ip running past the last statement
FaultUnits ==
    {<<Enter(5), Value(x), Leave(1), Goto(7),
       Leave(1), PopExc(SSA(1)), Return(Lit(1))>>
        : x \in {Slot(0), Slot(NSlots + 1), SSA(0), SSA(8)}}
    \cup {<<Goto(3), Return(Lit(1)), Enter(2), Goto(5)>>}

\* units whose Enter/Leave statements are properly nested and matched
MatchedHandlerUnits ==
    TryCatchUnits \cup NestedUnits \cup LoopUnits \cup PhiCUnits
    \cup EarlyThrowUnits \cup CatchTryUnits \cup TwoPhiCUnits

\* units that a front end would not emit
OddUnits ==
    { \* a block with a phi right after a Leave
      <<Enter(5), Value(Lit(1)), Leave(1), Phi(<<3>>, <<Lit(1)>>), Return(SSA(4))>>,
      \* a catch block that starts with a phi
      <<Enter(4), Call("throw", Lit(7)), Leave(1), Phi(<<2>>, <<Lit(1)>>),
        Leave(1), Return(SSA(4))>>,
      \* a protected region that starts with a phi
      <<Enter(4), Phi(<<1>>, <<Lit(1)>>), Leave(1), Return(Lit(2))>>,
      \* Return inside a protected region
      <<Enter(3), Return(Lit(1)), Leave(1), Return(Lit(2))>>,
      \* Leave without Enter, and pop_exception of something else
      <<Leave(1), Return(Lit(1))>>,
      <<Value(Lit(1)), PopExc(SSA(1)), Return(Lit(1))>>,
      <<Upsilon(Lit(1)), Return(Lit(1))>>,
      \* slot numbers out of range
      <<Assign(NSlots + 1, Lit(1)), Return(Lit(1))>>,
      <<NewVar(0), Return(Lit(1))>>,
      \* an assignment whose right-hand side names a statement that has not run
      <<Assign(1, SSA(3)), Return(Slot(1)), Value(Lit(1))>>,
      \* no Return
      <<Value(Lit(1))>>,
      \* Leave(0), and a PhiC that lists a statement that is no Upsilon
      <<Enter(3), Leave(0), Return(Lit(1))>>,
      <<Enter(3), Value(Lit(1)), PhiC(<<SSA(2)>>), Return(Lit(1))>> }

Units ==
    ForwardUnits \cup PhiUnits \cup MatchedHandlerUnits \cup FaultUnits
    \cup OddUnits

\* argument values bound to the slots at entry
ArgSets ==
    {[i \in 1..NSlots |-> IF i = 1 THEN a ELSE IF i = 2 THEN b ELSE NULL]
        : a \in {jl_true, jl_false, IntV(1)}, b \in {NULL, IntV(2)}}

\* ------------------------------------------------------------------------
\* Specification
\* ------------------------------------------------------------------------
\* the activation record as jl_fptr_interpret_call leaves it before
\* eval_body(stmts, s, 0, 0): zeroed storage with the arguments in the slots
Init ==
    /\ ofi = NoCall
    /\ toplevel = FALSE
    /\ module = NewModule
    /\ sparam_vals = NoSparams
    /\ stmts \in Units
    /\ \E args \in ArgSets :
          locals = args \o [i \in 1..Len(stmts) |-> NULL]
    /\ init_locals = locals
    /\ ip = 0
    /\ frames = <<NewFrame>>
    /\ eh = 0
    /\ continue_at = 0
    /\ excstack = <<>>
    /\ status = "run"
    /\ result = NULL
    /\ ndebug \in BOOLEAN
    /\ wm = [i \in 0..(Len(stmts) - 1) |-> -1]
    /\ cleared = {}
    /\ last = [op |-> "", ip |-> -1, frame |-> 0, out |-> "", nxt |-> -1]
    /\ src = "code_info"
    /\ mi = "mi"
    /\ expr = NullOp
    /\ dl = {}
    /\ fx = <<>>
    /\ bt = <<>>
    /\ tasks = <<>>
    /\ phirun = <<>>

Next ==
    \/ RunOffEnd
    \/ StrayPhiStmt
    \/ GotoStmt
    \/ GotoIfNotStmt
    \/ ReturnStmt
    \/ UpsilonStmt
    \/ AssignStmt
    \/ NewVarStmt
    \/ ExprStmt
    \/ PopExceptionStmt
    \/ EnterStmt
    \/ LeaveStmt

Spec == Init /\ [][Next]_vars

\* ------------------------------------------------------------------------
\* eval_body on the metadata statements, in a method invocation and in a
\* top-level thunk (jl_interpret_toplevel_thunk: toplevel = 1, no method
\* instance)
\* ------------------------------------------------------------------------
\* the metadata nodes: every head without arguments, and meta with the
\* arguments the top-level branch looks at and with some it does not
MetaNodes ==
    {Expr(h, <<>>) : h \in NoOpHeads \cup {"boundscheck"}}
        \cup {Expr("meta", <<jl_nospecialize_sym>>),
              Expr("meta", <<jl_specialize_sym>>),
              Expr("meta", <<jl_optlevel_sym, Lit(2)>>),
              Expr("meta", <<jl_compile_sym, Lit(0)>>),
              Expr("meta", <<jl_infer_sym, Lit(0)>>),
              Expr("meta", <<jl_optlevel_sym, Symbol(1)>>),
              Expr("meta", <<Symbol(1)>>),
              Expr("meta", <<Symbol(1), Lit(2)>>)}

TopUnits ==
    {<<Value(Lit(5)), e, Return(SSA(r))>> : e \in MetaNodes, r \in 1..2}

\* the settings of the module before the thunk runs
TopModules ==
    {[NewModule EXCEPT !.nospecialize = n, !.optlevel = o] :
        n \in {0, 1}, o \in {-1, 2}}

InitTop ==
    /\ ofi = NoCall
    /\ stmts \in TopUnits
    /\ toplevel \in BOOLEAN
    /\ mi = IF toplevel THEN "null" ELSE "mi"
    /\ module \in TopModules
    /\ sparam_vals = NoSparams
    /\ src = "code_info"
    /\ locals \in {[i \in 1..(NSlots + Len(stmts)) |->
                        IF i <= NSlots THEN IntV(10 + i) ELSE c] :
                    c \in {NULL, IntV(7)}}
    /\ init_locals = locals
    /\ ip = 0
    /\ frames = <<NewFrame>>
    /\ eh = 0
    /\ continue_at = 0
    /\ excstack = <<>>
    /\ status = "run"
    /\ result = NULL
    /\ ndebug \in BOOLEAN
    /\ wm = [i \in 0..(Len(stmts) - 1) |-> -1]
    /\ cleared = {}
    /\ last = [op |-> "", ip |-> -1, frame |-> 0, out |-> "", nxt |-> -1]
    /\ expr = NullOp
    /\ dl = {}
    /\ fx = <<>>
    /\ bt = <<>>
    /\ tasks = <<>>
    /\ phirun = <<>>

NextTop ==
    \/ ExprStmt
    \/ MetaStmt
    \/ ReturnStmt

SpecTop == InitTop /\ [][NextTop]_vars

\* ------------------------------------------------------------------------
\* eval_value on one slot or SSA reference, in an activation built by
\* jl_fptr_interpret_call (storage allocated and zeroed, s->mi set) or by
\* jl_interpret_toplevel_expr_in (no storage: s->locals is never assigned,
\* so it holds whatever the stack held)
\* ------------------------------------------------------------------------

\* code units of n statements, n SSA values
ValueUnits == {[i \in 1..n |-> Value(Lit(i))] : n \in 1..MaxSSA}

\* storage of NSlots + n cells: the cells of u are empty, every other cell
\* holds a value of its own
Stores(n) ==
    {[i \in 1..(NSlots + n) |-> IF i \in u THEN NULL ELSE IntV(10 + i)]
        : u \in SUBSET (1..(NSlots + n))}

\* memory an indeterminate s->locals may point at: readable cells with
\* arbitrary contents, or no mapping at all
WildStores(n) ==
    Stores(n) \cup {[i \in 1..(NSlots + n) |-> Unmapped]}

ValueExprs(n) ==
    {Slot(k) : k \in (-1)..(NSlots + 2)} \cup {SSA(k) : k \in (-1)..(n + 2)}

\* isdefined queries on the three kinds of reference, and a malformed one
QueryExprs ==
    {IsDefined(Slot(k)) : k \in 1..NSlots}
        \cup {IsDefined(GlobalRef(k)) : k \in 1..2}
        \cup {IsDefined(Symbol(k)) : k \in 1..2}
        \cup {IsDefined(StaticParameter(k)) : k \in 1..3}
        \cup {IsDefined(Lit(1))}

\* the bindings of the module: each of the two names bound or not
Modules == {[NewModule EXCEPT !.bound = b] : b \in SUBSET (1..2)}

\* static parameters: none, or up to two, the last one possibly unbound
SparamSets ==
    {NoSparams, SVec(<<>>), SVec(<<IntV(1)>>), SVec(<<TypeVarV>>),
     SVec(<<IntV(1), TypeVarV>>)}

InitValue ==
    /\ ofi = NoCall
    /\ stmts \in ValueUnits
    /\ mi \in {"mi", "null"}
    /\ IF mi = "mi"
       THEN src = "code_info" /\ locals \in Stores(Len(stmts))
       ELSE /\ src \in {"null", "code_info"}
            /\ locals \in {NoLocals} \cup WildStores(Len(stmts))
    /\ expr \in ValueExprs(Len(stmts)) \cup QueryExprs
    /\ toplevel = (mi = "null")
    /\ IF expr.k = "isdefined" /\ expr.sym.k \in {"globalref", "symbol"}
       THEN module \in Modules
       ELSE module = NewModule
    /\ IF expr.k = "isdefined" /\ expr.sym.k = "static_parameter"
       THEN sparam_vals \in SparamSets
       ELSE sparam_vals = NoSparams
    /\ init_locals = locals
    /\ ip = 0
    /\ frames = <<NewFrame>>
    /\ eh = 0
    /\ continue_at = 0
    /\ excstack = <<>>
    /\ status = "run"
    /\ result = NULL
    /\ ndebug \in BOOLEAN
    /\ wm = [i \in 0..(Len(stmts) - 1) |-> -1]
    /\ cleared = {}
    /\ last = [op |-> "", ip |-> -1, frame |-> 0, out |-> "", nxt |-> -1]
    /\ dl = {}
    /\ fx = <<>>
    /\ bt = <<>>
    /\ tasks = <<>>
    /\ phirun = <<>>

\* v = eval_value(e, s) with no handler of this invocation around it
EvalValueStep ==
    /\ status = "run"
    /\ LET v == eval_value(expr, locals) IN
       IF v.r = "raise"
       THEN Halt("raised", v.v, locals, Append(excstack, v.v), "value")
       ELSE IF v.r = "abort"
       THEN Halt("abort", NULL, locals, excstack, "value")
       ELSE IF v.r = "crash" \/ v.v = Unmapped
       THEN Halt("crash", NULL, locals, excstack, "value")
       ELSE Halt("returned", v.v, locals, excstack, "value")

NextValue == EvalValueStep

SpecValue == InitValue /\ [][NextValue]_vars

\* ------------------------------------------------------------------------
\* The foreign-call bridge: eval_value on Expr(:foreigncall, pointer, rettype,
\* (argtypes...), nreq, cconv, args...) once its operands are evaluated
\* ------------------------------------------------------------------------
\* type descriptors: kind is "bits" for a primitive type
Ty(name, kind, size, param) ==
    [name |-> name, kind |-> kind, size |-> size, param |-> param]
jl_any_type == Ty("Any", "any", 8, "")
jl_array_type == Ty("Array", "array", 8, "")
jl_nothing_type == Ty("Nothing", "nothing", 0, "")
jl_bool_type == Ty("Bool", "bits", 1, "")
jl_int32_type == Ty("Int32", "bits", 4, "")
jl_uint32_type == Ty("UInt32", "bits", 4, "")
jl_int64_type == Ty("Int64", "bits", 8, "")
jl_uint64_type == Ty("UInt64", "bits", 8, "")
jl_float16_type == Ty("Float16", "bits", 2, "")
jl_float32_type == Ty("Float32", "bits", 4, "")
jl_float64_type == Ty("Float64", "bits", 8, "")
\* the other primitive types of the model, by size in bytes
PrimTy(size) ==
    Ty(CASE size = 0 -> "Empty" [] size = 1 -> "UInt8" [] size = 2 -> "Int16"
         [] size = 3 -> "UInt24" [] size = 4 -> "Char" [] size = 8 -> "Int64"
         [] size = 16 -> "UInt128" [] OTHER -> "Bits", "bits", size, "")
PtrTy == Ty("Ptr", "cpointer", 8, "")
\* Ref{T}: param tells what T is
RefTy(param) == Ty("Ref", "ref", 8, param)
StructTy == Ty("Struct", "other", 8, "")

jl_is_primitivetype(dt) == dt.kind = "bits"
jl_is_cpointer_type(dt) == dt.kind = "cpointer"
jl_is_abstract_ref_type(dt) == dt.kind = "ref"
\* Symbol and Module are mutable types of the runtime
jl_is_immutable_datatype(param) == param = "immutable"

\* a value of a bits or pointer type is its bytes, lowest address first
BitsV(dt, bytes) == [t |-> dt.name, v |-> bytes]
\* the first n bytes of a byte sequence, zero-filled when it is shorter
Take(bytes, n) == [i \in 1..n |-> IF i <= Len(bytes) THEN bytes[i] ELSE 0]

\* the errors of the bridge
VarargError == [t |-> "ErrorException:vararg doesn't support", v |-> 0]
NullPointerError == [t |-> "ErrorException:Try to call a null pointer", v |-> 0]
SymbolError == [t |-> "ErrorException:could not load symbol", v |-> 0]
LibraryError == [t |-> "ErrorException:could not load library", v |-> 0]
RefReturnError == [t |-> "ErrorException:Shouldn't be here!", v |-> 0]
MethodError == [t |-> "MethodError", v |-> 0]

\* the symbol names that never reach a native call
IntrinsicNames == {"jl_value_ptr", "jl_symbol_n", "jl_symbol_name", "jl_dlsym"}

\* what the evaluation has done so far: fx the events in order, vm the
\* arguments pushed into the call frame, r its end ("" while it goes on)
Ev2(ev, a) == [ev |-> ev, a |-> a]
Did(b, ev, a) == [b EXCEPT !.fx = Append(b.fx, Ev2(ev, a))]
End(b, r, v) == [b EXCEPT !.r = r, !.v = v]

\* the null address
NullAddr == [lib |-> "", name |-> ""]

\* jl_dlsym(handle, name, &fptr, throw_err): the address found, or null
jl_dlsym(env, handle, name) ==
    IF [lib |-> handle, name |-> name] \in env.syms
    THEN [lib |-> handle, name |-> name] ELSE NullAddr

\* dcArgChar .. dcArgPointer: one argument of class c with payload p
dcArg(b, c, p) == [b EXCEPT !.vm = Append(b.vm, [c |-> c, p |-> p])]
Diag(b, what) == Did(b, "diag", what)

setInputParameter(b, dt, e) ==
    IF dt = jl_float32_type THEN dcArg(b, "float", e.v)
    ELSE IF dt = jl_float64_type THEN dcArg(b, "double", e.v)
    ELSE IF dt = jl_any_type THEN dcArg(b, "pointer", e)
    ELSE IF jl_is_abstract_ref_type(dt) THEN dcArg(b, "pointer", e.v)
    ELSE IF jl_is_cpointer_type(dt) THEN dcArg(b, "pointer", e.v)
    ELSE IF jl_is_primitivetype(dt) THEN
        CASE dt.size = 0 -> b
          [] dt.size = 1 -> dcArg(b, "char", Take(e.v, 1))
          [] dt.size = 2 -> dcArg(b, "short", Take(e.v, 2))
          [] dt.size = 4 -> dcArg(b, "int", Take(e.v, 4))
          [] dt.size = 8 -> dcArg(b, "long", Take(e.v, 8))
          [] dt.size = 16 -> dcArg(b, "longlong", Take(e.v, 8))
          [] OTHER -> End(Diag(b, "input type"), "exit", NULL)
    ELSE dcArg(Diag(b, "input type"), "pointer", e)

\* the loop over the declared parameter types (k is 0-based)
RECURSIVE PushArgs(_, _, _, _)
PushArgs(b, at, args, k) ==
    IF k >= Len(at) \/ b.r # "" THEN b
    ELSE PushArgs(setInputParameter(b, at[k + 1], args[k + 1]), at, args, k + 1)

\* the registers after the native function has run: every native function
\* of the model hands back its first integer-class argument in the integer
\* return register and its first floating-point argument in the
\* floating-point one; g is what a register holds that nothing has set
FirstOf(vm, cs, g) ==
    LET hits == {i \in 1..Len(vm) : vm[i].c \in cs} IN
    IF hits = {} THEN g
    ELSE vm[CHOOSE i \in hits : \A j \in hits : i <= j].p

NativeCall(vm, g) ==
    [int |-> FirstOf(vm, {"char", "short", "int", "long", "longlong", "pointer"}, g),
     flt |-> FirstOf(vm, {"float", "double"}, g)]

\* dcCallVoid .. dcCallPointer on fptr: the invocation is recorded with the
\* call frame it is made on
dcCall(b, as, fptr) == Did(b, "call", [as |-> as, fptr |-> fptr, vm |-> b.vm])

\* jl_new_bits(rt, ptr) with ptr the address of a C variable of `have`
\* bytes: the bytes past the variable are whatever lies next to it (g)
jl_new_bits(rt, bytes, have, g) ==
    BitsV(rt, [i \in 1..rt.size |-> IF i <= have THEN bytes[i] ELSE g[i - have]])

jl_box_bool(bytes) == BitsV(jl_bool_type, IF bytes[1] # 0 THEN <<1>> ELSE <<0>>)

\* invoke and decode by return type; reg.int of a pointer-class argument is
\* the object or address itself
Decode(b, rt, fptr, g) ==
    LET reg == NativeCall(b.vm, g) IN
    IF rt = jl_any_type \/ rt = jl_array_type
    THEN End(dcCall(b, "pointer", fptr), "val", reg.int)
    ELSE IF rt = jl_int64_type \/ rt = jl_uint64_type
    THEN End(dcCall(b, "long", fptr), "val", BitsV(rt, Take(reg.int, 8)))
    ELSE IF rt = jl_int32_type \/ rt = jl_uint32_type
    THEN End(dcCall(b, "int", fptr), "val", BitsV(rt, Take(reg.int, 4)))
    ELSE IF rt = jl_nothing_type
    THEN End(dcCall(b, "void", fptr), "val", jl_nothing)
    ELSE IF rt = jl_bool_type
    THEN End(dcCall(b, "char", fptr), "val", jl_box_bool(Take(reg.int, 1)))
    ELSE IF rt = jl_float64_type
    THEN \* the integer register, converted to a double by value
         End(dcCall(b, "long", fptr), "val",
             [t |-> "Float64", v |-> <<"(double)(long)", Take(reg.int, 8)>>])
    ELSE IF jl_is_cpointer_type(rt)
    THEN End(dcCall(b, "pointer", fptr), "val", BitsV(rt, reg.int))
    ELSE IF jl_is_abstract_ref_type(rt)
    THEN LET b1 == IF rt.param \in {"symbol", "module"}
                   THEN dcCall(b, "pointer", fptr) ELSE b
         IN IF ~jl_is_immutable_datatype(rt.param)
            THEN End(dcCall(b1, "pointer", fptr), "val", reg.int)
            ELSE End(Diag(b1, "return type"), "raise", RefReturnError)
    ELSE IF jl_is_primitivetype(rt) THEN
        CASE rt.size = 0 -> End(dcCall(b, "void", fptr), "val", BitsV(rt, <<>>))
          [] rt.size = 1 -> End(dcCall(b, "char", fptr), "val",
                                jl_new_bits(rt, Take(reg.int, 1), 1, g))
          [] rt.size = 2 -> End(dcCall(b, "short", fptr), "val",
                                jl_new_bits(rt, Take(reg.int, 2), 2, g))
          [] rt.size = 4 -> End(dcCall(b, "int", fptr), "val",
                                jl_new_bits(rt, Take(reg.int, 4), 4, g))
          [] rt.size = 8 -> End(dcCall(b, "long", fptr), "val",
                                jl_new_bits(rt, Take(reg.int, 8), 8, g))
          [] rt.size = 16 -> End(dcCall(b, "longlong", fptr), "val",
                                 jl_new_bits(rt, Take(reg.int, 8), 8, g))
          [] OTHER -> End(Diag(dcCall(b, "pointer", fptr), "return type"),
                          "val", reg.int)
    ELSE End(Diag(dcCall(b, "pointer", fptr), "return type"), "val", reg.int)

\* might_f parsed: fname, flib ("" when absent), fptr (null when absent)
Target(k, name, lib, addr) == [k |-> k, name |-> name, lib |-> lib, addr |-> addr]

ParseTarget(b, might_f) ==
    LET none == [fname |-> "", flib |-> "", fptr |-> NullAddr, b |-> b] IN
    IF might_f.k \in {"symbol", "string"}
    THEN [none EXCEPT !.fname = might_f.name]
    ELSE IF might_f.k = "pointer"
    THEN IF might_f.addr = NullAddr
         THEN [none EXCEPT !.b = End(b, "raise", NullPointerError)]
         ELSE [none EXCEPT !.fptr = might_f.addr]
    ELSE IF might_f.k = "tuple"
    THEN [none EXCEPT !.fname = might_f.name, !.flib = might_f.lib]
    ELSE IF might_f.k = "badtuple"  \* a field that is no symbol and no string
    THEN [none EXCEPT !.b = End(b, "exit", NULL)]
    ELSE [none EXCEPT !.b = End(Diag(b, "Invalid ccall arguments"), "exit", NULL)]

\* the lookup that tries the literal name before the prefixed one
Resolve_m(b, env, fname, flib) ==
    LET h == IF flib # "" THEN flib ELSE "internal"
        p2 == jl_dlsym(env, h, fname)
        b2 == Did(b, "dlsym", [lib |-> h, name |-> fname])
        p1 == jl_dlsym(env, h, "i" \o fname)
        b1 == Did(b2, "dlsym", [lib |-> h, name |-> "i" \o fname])
    IN IF p2 # NullAddr THEN [b |-> b2, fptr |-> p2]
       ELSE IF p1 # NullAddr THEN [b |-> b1, fptr |-> p1]
       ELSE [b |-> End(b1, "raise", SymbolError), fptr |-> NullAddr]

\* the lookup of a symbol name: 'i' + name and then name in the selected
\* library, then name in the global default handle, which raises
Resolve(b, env, fname, flib) ==
    LET b0 == IF flib # "" THEN Did(b, "load", flib) ELSE b IN
    IF flib # "" /\ flib \notin env.libs
    THEN [b |-> End(b0, "raise", LibraryError), fptr |-> NullAddr]
    ELSE
    LET h == IF flib # "" THEN flib ELSE "internal"
        p1 == jl_dlsym(env, h, "i" \o fname)
        b1 == Did(b0, "dlsym", [lib |-> h, name |-> "i" \o fname])
        p2 == jl_dlsym(env, h, fname)
        b2 == Did(b1, "dlsym", [lib |-> h, name |-> fname])
        p3 == jl_dlsym(env, "default", fname)
        b3 == Did(b2, "dlsym", [lib |-> "default", name |-> fname])
    IN IF p1 # NullAddr THEN [b |-> b1, fptr |-> p1]
       ELSE IF p2 # NullAddr THEN [b |-> b2, fptr |-> p2]
       ELSE IF p3 # NullAddr THEN [b |-> b3, fptr |-> p3]
       ELSE [b |-> End(b3, "raise", SymbolError), fptr |-> NullAddr]

\* the test of the variadic marker left out
VarargCheck_m(b, nreq) == b

\* size_t vararg = jl_unbox_long(argv[3]); if (vararg != 0) jl_error(...)
VarargCheck(b, nreq) ==
    IF nreq # 0 THEN End(b, "raise", VarargError) ELSE b

\* the intrinsic test made on the address as well: a literal address of one
\* of the four functions is answered without a native call
IsIntrinsic_m(t) ==
    t.fname \in IntrinsicNames \/ t.fptr.name \in IntrinsicNames

\* fname == jl_symbol("jl_value_ptr") and the three tests that follow it
IsIntrinsic(t) == t.fname \in IntrinsicNames

\* the four intrinsic branches: the result is computed in place; jl_dlsym
\* looks up the name its second argument gives in the handle its first
\* argument gives, and raises when asked to and the name is not there
Intrinsic(b, env, fname, args) ==
    IF fname = "jl_dlsym"
    THEN LET b1 == Did(b, "dlsym", [lib |-> args[1].v, name |-> args[2].v]) IN
         IF args[4].v # <<0, 0, 0, 0>> /\ jl_dlsym(env, args[1].v, args[2].v) = NullAddr
         THEN End(b1, "raise", SymbolError)
         ELSE End(b1, "val", [t |-> "intrinsic", v |-> fname])
    ELSE End(b, "val", [t |-> "intrinsic", v |-> fname])

\* the names of the primitive types
PrimitiveNames ==
    {"Bool", "Int32", "UInt32", "Int64", "UInt64", "Float16", "Float32",
     "Float64", "Empty", "UInt8", "Int16", "UInt24", "Char", "UInt128", "Bits"}

\* Base.convert applied to args: convert(T, x) is x as a value of T, its
\* low bytes kept or zero-filled; it has no method for one argument
convert(args) ==
    IF Len(args) = 2
    THEN Val(BitsV(args[1], Take(args[2].v, args[1].size)))
    ELSE Exc(MethodError)

\* the loop over the declared parameter types that converts an argument
\* whose type differs from the declared one when both are primitive:
\* argv[5+k] = jl_apply_generic(cf, &input_value, 1)
RECURSIVE ConvertArgs(_, _, _, _)
ConvertArgs(b, at, args, k) ==
    IF k >= Len(at) \/ b.r # "" THEN [b |-> b, args |-> args]
    ELSE LET inputtype == at[k + 1]
             input_value == args[k + 1]
         IN IF input_value.t # inputtype.name
               /\ jl_is_primitivetype(inputtype)
               /\ input_value.t \in PrimitiveNames
            THEN LET r == convert(<<input_value>>)
                     b1 == Did(b, "convert", <<input_value>>)
                 IN IF r.r = "raise"
                    THEN [b |-> End(b1, "raise", r.v), args |-> args]
                    ELSE ConvertArgs(b1, at, [args EXCEPT ![k + 1] = r.v], k + 1)
            ELSE ConvertArgs(b, at, args, k + 1)

\* the foreigncall branch of eval_value on the evaluated operands fc in the
\* loader environment env
eval_foreigncall(fc, env, g) ==
    LET b0 == VarargCheck([fx |-> <<>>, vm |-> <<>>, r |-> "", v |-> NULL], fc.nreq)
    IN IF b0.r # "" THEN b0 ELSE
    LET t == ParseTarget(b0, fc.target) IN
    IF t.b.r # "" THEN t.b
    ELSE
    LET cv == ConvertArgs(t.b, fc.at, fc.args, 0) IN
    IF cv.b.r # "" THEN cv.b
    ELSE IF IsIntrinsic(t)
    THEN Intrinsic(cv.b, env, t.fname, cv.args)
    ELSE
    LET res == IF t.fptr = NullAddr THEN Resolve(cv.b, env, t.fname, t.flib)
               ELSE [b |-> cv.b, fptr |-> t.fptr]
    IN IF res.b.r # "" THEN res.b ELSE
    LET b1 == PushArgs(Did(res.b, "dcNewCallVM", 0), fc.at, cv.args, 0) IN
    IF b1.r # "" THEN b1
    ELSE LET b2 == Decode(b1, fc.rt, res.fptr, g) IN
         IF b2.r = "val" THEN Did(b2, "dcFree", 0) ELSE b2

\* the bit patterns of n bytes the model draws: every byte value for one
\* byte; otherwise all zeros, all ones, a ramp, and a single 1 in each byte
Patterns(n) ==
    IF n = 1 THEN {<<x>> : x \in 0..255}
    ELSE {[i \in 1..n |-> 0], [i \in 1..n |-> 255], [i \in 1..n |-> i]}
         \cup {[i \in 1..n |-> IF i = k THEN 1 ELSE 0] : k \in 1..n}

\* what a register or stack cell holds that the evaluation has not set
Garbage == {[i \in 1..8 |-> 0], [i \in 1..8 |-> 170]}

\* loader environments: whether libfoo can be loaded, and which of the
\* names exist where
LoaderSyms ==
    {[lib |-> l, name |-> n] : l \in {"internal", "libfoo"}, n \in {"ifoo", "foo"}}
    \cup {[lib |-> "default", name |-> "foo"]}
Envs == {[libs |-> ls, syms |-> ss] : ls \in {{}, {"libfoo"}}, ss \in SUBSET LoaderSyms}
NoEnv == [libs |-> {}, syms |-> {}]

\* a literal address of a native function
RawAddr == [lib |-> "raw", name |-> "fn"]

FCall(target, rt, at, nreq, args) ==
    [target |-> target, rt |-> rt, at |-> at, nreq |-> nreq, cconv |-> "ccall",
     args |-> args]

Targets ==
    {Target("symbol", "foo", "", NullAddr), Target("string", "foo", "", NullAddr),
     Target("tuple", "foo", "libfoo", NullAddr),
     Target("pointer", "", "", RawAddr), Target("pointer", "", "", NullAddr),
     Target("symbol", "jl_symbol_n", "", NullAddr),
     Target("badtuple", "", "", NullAddr), Target("other", "", "", NullAddr)}

\* every kind of target, variadic or not, with one Int64 argument
TargetCalls ==
    {FCall(t, jl_int64_type, <<jl_int64_type>>, nreq,
           <<BitsV(jl_int64_type, [i \in 1..8 |-> i])>>)
        : t \in Targets, nreq \in {0, 1}}

\* the address of a function of the runtime library
InternalAddr(name) == [lib |-> "internal", name |-> name]

\* calls of the four intrinsic names with the arguments each one reads,
\* the name given as a symbol, as a string and with a library, and calls
\* of the same functions through their literal addresses
IntrinsicArgs(name) ==
    CASE name = "jl_value_ptr" ->
            [rt |-> PtrTy, at |-> <<jl_any_type>>,
             args |-> {<<[t |-> "Struct", v |-> 1]>>}]
      [] name = "jl_symbol_n" ->
            [rt |-> jl_any_type, at |-> <<PtrTy, jl_int64_type>>,
             args |-> {<<BitsV(PtrTy, [i \in 1..8 |-> i]),
                         BitsV(jl_int64_type, [i \in 1..8 |-> 0])>>}]
      [] name = "jl_symbol_name" ->
            [rt |-> PtrTy, at |-> <<jl_any_type>>,
             args |-> {<<[t |-> "Symbol", v |-> 1]>>}]
      [] OTHER ->
            [rt |-> PtrTy, at |-> <<PtrTy, PtrTy, PtrTy, jl_int32_type>>,
             args |-> {<<[t |-> "Ptr", v |-> h], [t |-> "Ptr", v |-> "foo"],
                         [t |-> "Ptr", v |-> "store"],
                         BitsV(jl_int32_type, <<e, 0, 0, 0>>)>>
                         : h \in {"internal", "libfoo"}, e \in {0, 1}}]

IntrinsicCalls ==
    UNION {UNION {{FCall(t, IntrinsicArgs(n).rt, IntrinsicArgs(n).at, nreq, a)
                     : a \in IntrinsicArgs(n).args, nreq \in {0, 1}}
                  : t \in {Target("symbol", n, "", NullAddr),
                           Target("string", n, "", NullAddr),
                           Target("tuple", n, "libfoo", NullAddr),
                           Target("pointer", "", "", InternalAddr(n))}}
           : n \in IntrinsicNames}

\* the primitive types the bridge has a case for
LoopTypes ==
    {PrimTy(1), PrimTy(2), PrimTy(4), PrimTy(8), PrimTy(16),
     jl_int32_type, jl_uint32_type, jl_uint64_type}

\* calls of a loopback function at a literal address: one parameter of
\* type T, return type T
LoopCalls ==
    UNION {{FCall(Target("pointer", "", "", RawAddr), T, <<T>>, 0,
                  <<BitsV(T, v)>>) : v \in Patterns(T.size)} : T \in LoopTypes}
    \cup {FCall(Target("pointer", "", "", RawAddr), jl_bool_type,
                 <<jl_bool_type>>, 0, <<BitsV(jl_bool_type, v)>>)
            : v \in {<<0>>, <<1>>}}

\* calls of a native function at a literal address, and of an intrinsic,
\* with arguments of a primitive type that is or is not the declared one
ConvertCalls ==
    LET P == Target("pointer", "", "", RawAddr)
        i32 == BitsV(jl_int32_type, <<1, 2, 3, 4>>)
        i64 == BitsV(jl_int64_type, [i \in 1..8 |-> i])
        one == BitsV(jl_bool_type, <<1>>)
    IN {FCall(P, jl_int64_type, <<T>>, 0, <<v>>)
           : T \in {jl_int64_type, jl_int32_type, PrimTy(1)}, v \in {i32, i64, one}}
       \cup {FCall(P, jl_int64_type, <<jl_int64_type, jl_int32_type>>, 0, <<i64, v>>)
               : v \in {i32, i64}}
       \cup {FCall(Target("symbol", "jl_symbol_n", "", NullAddr), jl_any_type,
                    <<PtrTy, jl_int64_type>>, 0,
                    <<BitsV(PtrTy, [i \in 1..8 |-> i]), v>>) : v \in {i32, i64}}

\* calls with the other parameter and return types
OddCalls ==
    LET P == Target("pointer", "", "", RawAddr)
        i64 == BitsV(jl_int64_type, [i \in 1..8 |-> i])
        obj == [t |-> "Struct", v |-> 1]
    IN {FCall(P, jl_int64_type, <<PrimTy(3)>>, 0, <<BitsV(PrimTy(3), <<1, 2, 3>>)>>),
        FCall(P, StructTy, <<StructTy>>, 0, <<obj>>),
        FCall(P, jl_any_type, <<jl_any_type>>, 0, <<obj>>),
        FCall(P, PtrTy, <<PtrTy>>, 0, <<BitsV(PtrTy, [i \in 1..8 |-> i])>>),
        FCall(P, jl_float64_type, <<jl_float64_type>>, 0,
              <<BitsV(jl_float64_type, [i \in 1..8 |-> i])>>),
        FCall(P, jl_float32_type, <<jl_float32_type>>, 0,
              <<BitsV(jl_float32_type, <<1, 2, 3, 4>>)>>),
        FCall(P, jl_float16_type, <<jl_float16_type>>, 0,
              <<BitsV(jl_float16_type, <<1, 2>>)>>),
        FCall(P, PrimTy(0), <<PrimTy(0)>>, 0, <<BitsV(PrimTy(0), <<>>)>>),
        FCall(P, jl_int64_type, <<>>, 0, <<>>)}
       \cup {FCall(P, rt, <<jl_int64_type>>, 0, <<i64>>)
               : rt \in {PrimTy(3), StructTy, jl_nothing_type, jl_array_type}}
       \cup {FCall(P, RefTy(p), <<jl_any_type>>, 0, <<obj>>)
               : p \in {"symbol", "module", "mutable", "immutable"}}

InitBridge ==
    /\ ofi = NoCall
    /\ toplevel = FALSE
    /\ module = NewModule
    /\ sparam_vals = NoSparams
    /\ \/ expr \in TargetCalls /\ dl \in Envs
       \/ expr \in IntrinsicCalls /\ dl \in {e \in Envs : e.libs = {}}
       \/ expr \in LoopCalls \cup OddCalls \cup ConvertCalls /\ dl = NoEnv
    /\ fx = <<>>
    /\ stmts = <<>>
    /\ locals = NoLocals
    /\ init_locals = locals
    /\ src = "null"
    /\ mi = "null"
    /\ ip = 0
    /\ frames = <<NewFrame>>
    /\ eh = 0
    /\ continue_at = 0
    /\ excstack = <<>>
    /\ status = "run"
    /\ result = NULL
    /\ ndebug \in BOOLEAN
    /\ wm = <<>>
    /\ cleared = {}
    /\ last = [op |-> "", ip |-> -1, frame |-> 0, out |-> "", nxt |-> -1]
    /\ bt = <<>>
    /\ tasks = <<>>
    /\ phirun = <<>>

\* eval_value on a foreigncall expression with no handler of this
\* invocation around it; exit(1) ends the process
ForeignCallStep ==
    /\ status = "run"
    /\ \E g \in Garbage :
         LET o == eval_foreigncall(expr, dl, g) IN
         /\ fx' = o.fx
         /\ status' = CASE o.r = "val" -> "returned"
                         [] o.r = "raise" -> "raised"
                         [] OTHER -> "exit"
         /\ result' = o.v
         /\ excstack' = IF o.r = "raise" THEN Append(excstack, o.v) ELSE excstack
         /\ last' = Ev("foreigncall", o.r, -1)
    /\ UNCHANGED <<stmts, locals, ip, frames, eh, continue_at, ndebug,
                   init_locals, wm, cleared, src, mi, expr, dl, bt, tasks, phirun,
                   toplevel, module, sparam_vals, ofi>>

NextBridge == ForeignCallStep

SpecBridge == InitBridge /\ [][NextBridge]_vars

\* ------------------------------------------------------------------------
\* jl_capture_interp_frame
\* ------------------------------------------------------------------------
\* a buffer entry nothing has written
Unset == [t |-> "unset", v |-> 0]
JL_BT_NON_PTR_ENTRY == [t |-> "JL_BT_NON_PTR_ENTRY", v |-> 0]
\* the descriptor word: tag JL_BT_INTERP_FRAME_TAG with its header field
jl_bt_entry_descriptor(njlvalues, nptrs, tag, header) ==
    [t |-> "descriptor",
     v |-> [njlvalues |-> njlvalues, nptrs |-> nptrs, tag |-> tag, header |-> header]]
\* s->module of every modelled activation
TheModule == [t |-> "module", v |-> "Main"]
CodeRef(what) == [t |-> what, v |-> 0]

\* three entries whether or not there is a method instance
RequiredSpace_m(need_module) == 3

\* int required_space = need_module ? 4 : 3
RequiredSpace(need_module) == IF need_module THEN 4 ELSE 3

\* bt_entry[i] = x for the entries of ws, (index, value) pairs, in order
RECURSIVE WriteEntries(_, _)
WriteEntries(buf, ws) ==
    IF ws = <<>> THEN buf
    ELSE WriteEntries([buf EXCEPT ![ws[1][1] + 1] = ws[1][2]], Tail(ws))

\* jl_capture_interp_frame(bt_entry, stateend, space_remaining) on the
\* activation (s_mi, s_src, s_ip): the count returned and the buffer
jl_capture_interp_frame(bt_entry, s_mi, s_src, s_ip, space_remaining) ==
    LET need_module == s_mi = "null"
        required_space == RequiredSpace(need_module)
        njlvalues == IF need_module THEN 2 ELSE 1
        entry_tags == jl_bt_entry_descriptor(njlvalues, 0, "JL_BT_INTERP_FRAME_TAG", s_ip)
        code == IF s_mi # "null" THEN CodeRef("mi")
                ELSE IF s_src # "null" THEN CodeRef("src")
                ELSE jl_nothing
    IN IF space_remaining < required_space
       THEN [ret |-> 0, buf |-> bt_entry]
       ELSE [ret |-> required_space,
             buf |-> WriteEntries(bt_entry,
                        <<<<0, JL_BT_NON_PTR_ENTRY>>, <<1, entry_tags>>, <<2, code>>>>
                        \o (IF need_module THEN <<<<3, TheModule>>>> ELSE <<>>))]

\* an activation of a method (s->mi and s->src set), of a top-level thunk
\* (s->src only) or of a top-level expression (s->src possibly NULL), at
\* some ip, and a buffer with space_remaining entries left
InitCapture ==
    /\ ofi = NoCall
    /\ toplevel = FALSE
    /\ module = NewModule
    /\ sparam_vals = NoSparams
    /\ mi \in {"mi", "null"}
    /\ src \in IF mi = "mi" THEN {"code_info"} ELSE {"code_info", "null"}
    /\ ip \in 0..MaxIp
    /\ \E space \in 0..MaxSpace :
          bt = [buf |-> [i \in 1..MaxSpace |-> Unset], space |-> space, ret |-> -1]
    /\ stmts = <<>>
    /\ locals = NoLocals
    /\ init_locals = locals
    /\ frames = <<NewFrame>>
    /\ eh = 0
    /\ continue_at = 0
    /\ excstack = <<>>
    /\ status = "run"
    /\ result = NULL
    /\ ndebug \in BOOLEAN
    /\ wm = <<>>
    /\ cleared = {}
    /\ last = [op |-> "", ip |-> -1, frame |-> 0, out |-> "", nxt |-> -1]
    /\ expr = NullOp
    /\ dl = {}
    /\ fx = <<>>
    /\ tasks = <<>>
    /\ phirun = <<>>

\* the stack walker asks for the frame of the activation
CaptureStep ==
    /\ bt.ret = -1
    /\ LET r == jl_capture_interp_frame(bt.buf, mi, src, ip, bt.space) IN
       bt' = [bt EXCEPT !.buf = r.buf, !.ret = r.ret]
    /\ UNCHANGED <<stmts, locals, ip, frames, eh, continue_at, excstack, status,
                   result, ndebug, init_locals, wm, cleared, last, src, mi,
                   expr, dl, fx, tasks, phirun,
                   toplevel, module, sparam_vals, ofi>>

NextCapture == CaptureStep

SpecCapture == InitCapture /\ [][NextCapture]_vars

\* ------------------------------------------------------------------------
\* two invocations of eval_body on two tasks
\* ------------------------------------------------------------------------
Tasks == 1..2

\* code units of the two tasks: a plain try, a try whose body raises, two
\* nested tries left together, two nested tries whose inner body raises
TaskUnits ==
    {<<Enter(4), Value(Lit(1)), Leave(1), Return(Lit(1))>>,
     <<Enter(5), Call("throw", Lit(7)), Leave(1), Goto(7),
       Leave(1), PopExc(SSA(0)), Return(Lit(1))>>,
     <<Enter(7), Enter(6), Value(Lit(1)), Leave(2), Goto(8),
       Leave(1), Leave(1), Return(Lit(1))>>,
     <<Enter(7), Enter(6), Call("throw", Lit(7)), Leave(2), Goto(8),
       Leave(1), Leave(1), Return(Lit(1))>>}

\* one task at the head of eval_body: ct->eh empty, no handler jumped to
NewTask(prog) ==
    [prog |-> prog, ip |-> 0, eh |-> <<>>, depth |-> 0, continue_at |-> 0,
     status |-> "run", steps |-> 0, landed |-> 0]

\* every task is the current task
CurrentTask_m(t) == 1

\* jl_task_t *ct = jl_current_task, read by the invocation running on task t
CurrentTask(t) == t

\* jl_enter_handler(&__eh) on task ct: __eh is linked in front of ct->eh
jl_enter_handler(sys, ct, h) == [sys EXCEPT ![ct].eh = Append(@, h)]

\* eh = ct->eh; while (--hand_n_leave > 0) eh = eh->prev
WalkHandlers(ehs, hand_n_leave) == ehs[Len(ehs) - hand_n_leave + 1]

\* jl_eh_restore_state(eh) on task ct: ct->eh = eh->prev
jl_eh_restore_state(sys, ct, hand_n_leave) ==
    [sys EXCEPT ![ct].eh = SubSeq(@, 1, Len(@) - hand_n_leave)]

\* one statement of the invocation on task t
TaskStmt(sys, t) ==
    LET me == sys[t]
        ct == CurrentTask(t)
        stmt == me.prog[me.ip + 1]
        next_ip == me.ip + 1
        ehs == sys[ct].eh
        Go(sy, to, d, land, st) ==
            [sy EXCEPT ![t].ip = to, ![t].depth = d, ![t].landed = land,
                       ![t].status = st, ![t].steps = @ + 1,
                       ![t].continue_at = 0]
    IN CASE stmt.op = "enter" ->
              Go(jl_enter_handler(sys, ct, [owner |-> t, catch_ip |-> stmt.n - 1,
                                            depth |-> me.depth]),
                 next_ip, me.depth + 1, me.landed, "run")
         [] stmt.op = "leave" ->
              IF Len(ehs) < stmt.n
              THEN Go(sys, me.ip, me.depth, me.landed, "crash")
              ELSE LET h == WalkHandlers(ehs, stmt.n) IN
                   \* s->continue_at = next_ip; jl_longjmp(eh->eh_ctx, 1);
                   \* ip = s->continue_at; s->continue_at = 0
                   Go(jl_eh_restore_state(sys, ct, stmt.n),
                      next_ip, h.depth, h.owner, "run")
         [] stmt.op = "call" /\ stmt.f = "throw" ->
              IF ehs = <<>>
              THEN Go(sys, me.ip, me.depth, me.landed, "raised")
              ELSE LET h == ehs[Len(ehs)] IN
                   \* a real exception: ip = catch_ip
                   Go(sys, h.catch_ip, h.depth, h.owner, "run")
         [] stmt.op = "goto" ->
              Go(sys, stmt.n - 1, me.depth, me.landed, "run")
         [] stmt.op = "return" ->
              Go(sys, me.ip, me.depth, me.landed, "done")
         [] OTHER ->
              Go(sys, next_ip, me.depth, me.landed, "run")

\* the invocation of prog alone on a task, after k statements
RECURSIVE Solo(_, _)
Solo(prog, k) ==
    IF k = 0 THEN <<NewTask(prog)>>
    ELSE TaskStmt(Solo(prog, k - 1), 1)

InitTasks ==
    /\ ofi = NoCall
    /\ toplevel = FALSE
    /\ module = NewModule
    /\ sparam_vals = NoSparams
    /\ \E p \in TaskUnits, q \in TaskUnits :
          tasks = [sys |-> <<NewTask(p), NewTask(q)>>, cur |-> 0]
    /\ stmts = <<>>
    /\ src = "code_info"
    /\ mi = "mi"
    /\ locals = NoLocals
    /\ init_locals = locals
    /\ ip = 0
    /\ frames = <<NewFrame>>
    /\ eh = 0
    /\ continue_at = 0
    /\ excstack = <<>>
    /\ status = "run"
    /\ result = NULL
    /\ ndebug \in BOOLEAN
    /\ wm = <<>>
    /\ cleared = {}
    /\ last = [op |-> "", ip |-> -1, frame |-> 0, out |-> "", nxt |-> -1]
    /\ expr = NullOp
    /\ dl = {}
    /\ fx = <<>>
    /\ bt = <<>>
    /\ phirun = <<>>

\* the scheduler lets task t run one statement of its invocation
TaskStep(t) ==
    /\ tasks.sys[t].status = "run"
    /\ tasks' = [sys |-> TaskStmt(tasks.sys, t), cur |-> t]
    /\ UNCHANGED <<stmts, locals, ip, frames, eh, continue_at, excstack, status,
                   result, ndebug, init_locals, wm, cleared, last, src, mi,
                   expr, dl, fx, bt, phirun,
                   toplevel, module, sparam_vals, ofi>>

NextTasks == \E t \in Tasks : TaskStep(t)

SpecTasks == InitTasks /\ [][NextTasks]_vars

\* ------------------------------------------------------------------------
\* eval_phi on one target, run again after the edge lists were reordered
\* ------------------------------------------------------------------------
\* code units with a run of phi-nodes, the statement executed before the
\* transfer (from) and the target (to): one phi with two predecessors, one
\* with a predecessor listed twice, a second phi reached by an implicit
\* fall-through, the same with the fall-through listed twice, three phis
PhiCases ==
    {[stmts |-> <<GotoIfNot(Slot(1), 3), Value(Lit(5)),
                  Phi(<<1, 2>>, <<Lit(1), Slot(1)>>), Return(SSA(3))>>,
      from |-> f, to |-> 2] : f \in {0, 1}}
    \cup {[stmts |-> <<GotoIfNot(Slot(1), 3), Value(Lit(5)),
                       Phi(<<1, 1, 2>>, <<Lit(1), Lit(2), Lit(3)>>), Return(SSA(3))>>,
           from |-> f, to |-> 2] : f \in {0, 1}}
    \cup {[stmts |-> <<Value(Lit(5)), Phi(<<1>>, <<Lit(4)>>),
                       Phi(<<1, 2>>, <<Lit(1), SSA(1)>>), Return(SSA(3))>>,
           from |-> 0, to |-> 1],
          [stmts |-> <<Value(Lit(5)), Phi(<<1>>, <<Lit(4)>>),
                       Phi(<<1, 2, 2>>, <<Lit(1), Lit(2), Lit(3)>>), Return(SSA(3))>>,
           from |-> 0, to |-> 1],
          \* no entry for the predecessor, and an entry without a value
          [stmts |-> <<GotoIfNot(Slot(1), 3), Value(Lit(5)),
                       Phi(<<2>>, <<Lit(1)>>), Return(SSA(3))>>,
           from |-> 0, to |-> 2],
          [stmts |-> <<GotoIfNot(Slot(1), 3), Value(Lit(5)),
                       Phi(<<1, 2>>, <<NullOp, Lit(1)>>), Return(SSA(3))>>,
           from |-> 0, to |-> 2],
          \* a boundary found after two phis of the run were collected
          [stmts |-> <<Value(Lit(5)), Phi(<<1>>, <<Lit(4)>>),
                       Phi(<<1>>, <<Lit(6)>>),
                       Phi(<<1, 2>>, <<Lit(1), Lit(2)>>), Return(SSA(4))>>,
           from |-> 0, to |-> 1],
          \* a transfer to a statement that is not a phi-node
          [stmts |-> <<Value(Lit(5)), Value(Lit(6)), Return(SSA(2))>>,
           from |-> 0, to |-> 1],
          \* two phis of one block that read each other, and one that raises
          [stmts |-> <<Value(Lit(5)), Value(Lit(6)), Phi(<<1>>, <<SSA(4)>>),
                       Phi(<<1>>, <<SSA(3)>>), Return(SSA(3))>>,
           from |-> 0, to |-> 2],
          [stmts |-> <<Value(Lit(5)), Value(Lit(6)), Phi(<<1>>, <<Lit(1)>>),
                       Phi(<<1>>, <<Slot(1)>>), Return(SSA(3))>>,
           from |-> 0, to |-> 2],
          \* a phi past an implicit boundary that reads the phi before it,
          \* and one whose operand may raise
          [stmts |-> <<Value(Lit(5)), Phi(<<1>>, <<Lit(4)>>),
                       Phi(<<1, 2>>, <<Lit(1), SSA(2)>>), Return(SSA(3))>>,
           from |-> 0, to |-> 1],
          [stmts |-> <<Value(Lit(5)), Phi(<<1>>, <<Lit(4)>>),
                       Phi(<<1, 2>>, <<Lit(1), Slot(1)>>), Return(SSA(3))>>,
           from |-> 0, to |-> 1],
          [stmts |-> <<Value(Lit(5)), Phi(<<1>>, <<Lit(4)>>),
                       Phi(<<1, 2>>, <<Lit(1), Lit(2)>>),
                       Phi(<<1, 2, 3>>, <<Lit(1), Slot(1), Lit(3)>>),
                       Return(SSA(4))>>,
           from |-> 0, to |-> 1]}

\* the storage of the activation: slot 1 assigned or not
PhiStores(n) ==
    {[i \in 1..(NSlots + n) |-> IF i \in u THEN NULL ELSE IntV(10 + i)]
        : u \in SUBSET {1}}

Perms(n) == {f \in [1..n -> 1..n] : \A a, b \in 1..n : f[a] = f[b] => a = b}

\* the phi-node st with the entries of its edge list in the order f
Reordered(st, f) ==
    [st EXCEPT !.edges = [j \in 1..Len(st.edges) |-> st.edges[f[j]]],
               !.vals = [j \in 1..Len(st.vals) |-> st.vals[f[j]]]]

\* the value of `from` when the phi at index k is scanned, (f, t, i) being
\* the loop's from, to and i
RECURSIVE FromAt(_, _, _, _)
FromAt(f, t, i, k) ==
    IF t + i >= k THEN f
    ELSE LET sc == ScanEdges(Stmt(t + i).edges, 0, -1, t, f, t + i + 1)
             n_oldphi == sc.closest - t
         IN IF n_oldphi # 0
            THEN FromAt(sc.closest - 1, t + n_oldphi, i - n_oldphi + 1, k)
            ELSE FromAt(f, t, i + 1, k)

\* the block start `to` when the phi at index k is scanned
RECURSIVE ToAt(_, _, _, _)
ToAt(f, t, i, k) ==
    IF t + i >= k THEN t
    ELSE LET sc == ScanEdges(Stmt(t + i).edges, 0, -1, t, f, t + i + 1)
             n_oldphi == sc.closest - t
         IN IF n_oldphi # 0
            THEN ToAt(sc.closest - 1, t + n_oldphi, i - n_oldphi + 1, k)
            ELSE ToAt(f, t, i + 1, k)

InitPhi ==
    /\ ofi = NoCall
    /\ toplevel = FALSE
    /\ module = NewModule
    /\ sparam_vals = NoSparams
    /\ \E c \in PhiCases :
          /\ stmts = c.stmts
          /\ ip = c.from
          /\ phirun = [to |-> c.to, runs |-> <<>>, fresh |-> TRUE]
    /\ src = "code_info"
    /\ mi = "mi"
    /\ locals \in PhiStores(Len(stmts))
    /\ init_locals = locals
    /\ frames = <<NewFrame>>
    /\ eh = 0
    /\ continue_at = 0
    /\ excstack = <<>>
    /\ status = "run"
    /\ result = NULL
    /\ ndebug \in BOOLEAN
    /\ wm = <<>>
    /\ cleared = {}
    /\ last = [op |-> "", ip |-> -1, frame |-> 0, out |-> "", nxt |-> -1]
    /\ expr = NullOp
    /\ dl = {}
    /\ fx = <<>>
    /\ bt = <<>>
    /\ tasks = <<>>

\* eval_phi(stmts, s, ns, to) with s->ip = from
RunPhi ==
    /\ phirun.fresh
    /\ Len(phirun.runs) < 2
    /\ LET out == eval_phi(locals, ip, phirun.to)
           froms == [k \in phirun.to..(out.ip - 1) |-> FromAt(ip, phirun.to, 0, k)]
       IN /\ locals' = out.L
          /\ phirun' = [phirun EXCEPT
                            !.runs = Append(@, [stmts |-> stmts, out |-> out,
                                                froms |-> froms]),
                            !.fresh = FALSE]
    /\ UNCHANGED <<stmts, ip, frames, eh, continue_at, excstack, status,
                   result, ndebug, init_locals, wm, cleared, last, src, mi,
                   expr, dl, fx, bt, tasks,
                   toplevel, module, sparam_vals, ofi>>

\* a new activation at the same transfer with the same storage, the edge
\* list of the phi at index k written in another order
Restart(k) ==
    /\ Len(phirun.runs) = 1
    /\ Stmt(k).op = "phi"
    /\ \E f \in Perms(Len(Stmt(k).edges)) :
          stmts' = [stmts EXCEPT ![k + 1] = Reordered(@, f)]
    /\ locals' = init_locals
    /\ phirun' = [phirun EXCEPT !.fresh = TRUE]
    /\ UNCHANGED <<ip, frames, eh, continue_at, excstack, status,
                   result, ndebug, init_locals, wm, cleared, last, src, mi,
                   expr, dl, fx, bt, tasks,
                   toplevel, module, sparam_vals, ofi>>

NextPhi ==
    \/ RunPhi
    \/ \E k \in 0..(MaxPhiUnit - 1) : k < ns /\ Restart(k)

SpecPhi == InitPhi /\ [][NextPhi]_vars

\* ------------------------------------------------------------------------
\* do_invoke and do_call on operand lists of any length
\* ------------------------------------------------------------------------
\* a method instance, named by the callee and the argument count it is for
MethodInstance(f, n) == [t |-> "mi", v |-> <<f, n>>]

\* jl_invoke(f, args, nargs, meth): the resolved target applied directly
jl_invoke(f, args, meth) ==
    Val([t |-> "applied", v |-> [meth |-> meth, f |-> f, args |-> args]])

\* the target dynamic dispatch selects for a callee and its arguments
Dispatch(f, args) == IF f.t = "int" THEN MethodInstance(f.v, Len(args))
                     ELSE MethodInstance(0, Len(args))

\* jl_apply(argv, nargs): dispatch on argv[0], then apply
jl_apply_generic(argv) ==
    jl_invoke(argv[1], Tail(argv), Dispatch(argv[1], Tail(argv)))

\* for (i = first; i < nargs; i++) argv[i + shift] = eval_value(args[i], s);
\* a = [i, evals, stores, argv, r] with 0-based operand and buffer indexes
RECURSIVE EvalOperands(_, _, _, _)
EvalOperands(args, L, shift, a) ==
    IF a.i >= Len(args) THEN a
    ELSE LET v == eval_value(args[a.i + 1], L) IN
         IF v.r # "val"
         THEN [a EXCEPT !.evals = Append(@, a.i), !.r = v]
         ELSE EvalOperands(args, L, shift,
                  [a EXCEPT !.i = @ + 1,
                            !.evals = Append(@, a.i),
                            !.stores = Append(@, a.i + shift),
                            !.argv = Append(@, v.v)])

\* do_call(args, nargs, s): argv has nargs entries
do_call_n(args, L) ==
    LET a == EvalOperands(args, L, 0,
                 [i |-> 0, evals |-> <<>>, stores |-> <<>>, argv |-> <<>>,
                  r |-> Val(NULL)])
    IN IF a.r.r # "val" THEN [a EXCEPT !.argv = <<>>]
       ELSE [a EXCEPT !.r = jl_apply_generic(a.argv)]

\* do_invoke(args, nargs, s): argv has nargs - 1 entries, argv[0] .. argv[nargs - 2],
\* the operands are stored at argv[1] .. argv[nargs - 1]. What the entry
\* past the end holds when it is read back is one of oob: the value stored
\* ("intact"), something else ("garbage"), or the store hit memory the
\* function needs ("crash")
do_invoke(args, L, oob) ==
    LET nargs == Len(args)
        size == nargs - 1
        a == EvalOperands(args, L, 0,
                 [i |-> 1, evals |-> <<>>, stores |-> <<>>, argv |-> <<>>,
                  r |-> Val(NULL)])
        \* argv[idx] read back for the call
        Read(idx) == IF idx < size \/ oob = "intact" THEN a.argv[idx]
                     ELSE Unmapped
        meth == args[1]
    IN IF a.r.r # "val" THEN [a EXCEPT !.argv = <<>>]
       ELSE IF oob = "crash" /\ \E j \in 1..Len(a.stores) : a.stores[j] >= size
       THEN [a EXCEPT !.r = Crash, !.argv = <<>>]
       ELSE [a EXCEPT !.r = jl_invoke(Read(1), [j \in 1..(nargs - 2) |-> Read(j + 1)],
                                      meth.v),
                      !.argv = [j \in 1..(nargs - 1) |-> Read(j)]]

\* callees and arguments of the modelled invoke expressions
InvokeOperands == {Lit(1), Lit(2), Slot(1), Slot(2)}

\* Expr(:invoke, target, f, a1, ..., ak) with k <= MaxArgs, the target
\* being the one dispatch would select or another one
InvokeExprs ==
    UNION {{[head |-> "invoke",
             args |-> <<[k |-> "mi", n |-> 0, v |-> MethodInstance(m, n)]>> \o ops]
               : ops \in [1..(n + 1) -> InvokeOperands], m \in {1, 2}}
           : n \in 0..MaxArgs}

InitInvoke ==
    /\ ofi = NoCall
    /\ toplevel = FALSE
    /\ module = NewModule
    /\ sparam_vals = NoSparams
    /\ expr \in InvokeExprs
    /\ fx = <<>>
    /\ stmts = <<>>
    /\ locals \in PhiStores(0)
    /\ init_locals = locals
    /\ src = "code_info"
    /\ mi = "mi"
    /\ ip = 0
    /\ frames = <<NewFrame>>
    /\ eh = 0
    /\ continue_at = 0
    /\ excstack = <<>>
    /\ status = "run"
    /\ result = NULL
    /\ ndebug \in BOOLEAN
    /\ wm = <<>>
    /\ cleared = {}
    /\ last = [op |-> "", ip |-> -1, frame |-> 0, out |-> "", nxt |-> -1]
    /\ dl = {}
    /\ bt = <<>>
    /\ tasks = <<>>
    /\ phirun = <<>>

\* eval_value on an invoke expression with no handler around it
InvokeStep ==
    /\ status = "run"
    /\ \E oob \in {"intact", "garbage", "crash"} :
         LET o == do_invoke(expr.args, locals, oob) IN
         /\ fx' = [evals |-> o.evals, stores |-> o.stores,
                   size |-> Len(expr.args) - 1, argv |-> o.argv]
         /\ status' = CASE o.r.r = "val" -> "returned"
                         [] o.r.r = "raise" -> "raised"
                         [] OTHER -> "crash"
         /\ result' = o.r.v
         /\ excstack' = IF o.r.r = "raise" THEN Append(excstack, o.r.v) ELSE excstack
         /\ last' = Ev("invoke", o.r.r, -1)
    /\ UNCHANGED <<stmts, locals, ip, frames, eh, continue_at, ndebug,
                   init_locals, wm, cleared, src, mi, expr, dl, bt, tasks, phirun,
                   toplevel, module, sparam_vals, ofi>>

NextInvoke == InvokeStep

SpecInvoke == InitInvoke /\ [][NextInvoke]_vars

TypeOK ==
    /\ status \in {"run", "returned", "raised", "escaped", "abort", "crash",
                  "exit"}
    /\ Len(locals) = NSlots + ns
    /\ ip >= 0
    /\ Len(frames) >= 1 /\ Len(frames) <= MaxFrames
    /\ eh \in 0..MaxFrames
    /\ Len(excstack) \in 0..MaxExc

\* ========================================================================
\* Claims
\* ========================================================================

\* ------------------------------------------------------------------------
\* Direct-style reference evaluation of a unit without phi-nodes and handler
\* scopes: a recursive descent over the statements, on the 1-based storage
\* sequence itself
\* ------------------------------------------------------------------------
Out(st, v, L) == [st |-> st, v |-> v, L |-> L]

RefRead(e, L) ==
    CASE e.k = "ssa" ->
            IF e.n < 1 \/ e.n > Len(stmts) THEN Exc(InvalidSSAError)
            ELSE Val(L[NSlots + e.n])
      [] e.k = "slot" ->
            IF e.n < 1 \/ e.n > NSlots THEN Exc(InvalidSlotError)
            ELSE IF L[e.n].t = "null" THEN Exc(UndefVarError(e.n))
            ELSE Val(L[e.n])
      [] e.k = "bool" -> Val([t |-> "bool", v |-> e.n])
      [] e.k = "int" -> Val([t |-> "int", v |-> e.n])
      [] OTHER -> Val(NULL)

RECURSIVE RefEval(_, _)
RefEval(i, L) ==
    IF i > Len(stmts) THEN Out("raised", NoReturnError, L)
    ELSE
      LET st == stmts[i]
          x == RefRead(st.a, L)
      IN CASE st.op = "goto" -> RefEval(st.n, L)
           [] st.op = "return" ->
                IF x.r = "raise" THEN Out("raised", x.v, L)
                ELSE Out("returned", x.v, L)
           [] st.op = "gotoifnot" ->
                IF x.r = "raise" THEN Out("raised", x.v, L)
                ELSE IF x.v = jl_true THEN RefEval(i + 1, L)
                ELSE IF x.v = jl_false THEN RefEval(st.n, L)
                ELSE Out("raised", TypeError, L)
           [] st.op = "assign" ->
                IF x.r = "raise" THEN Out("raised", x.v, L)
                ELSE IF st.n < 1 \/ st.n > NSlots THEN Out("fault", NULL, L)
                ELSE RefEval(i + 1, [L EXCEPT ![st.n] = x.v])
           [] st.op = "newvar" ->
                IF st.n < 1 \/ st.n > NSlots THEN Out("fault", NULL, L)
                ELSE RefEval(i + 1, [L EXCEPT ![st.n] = NULL])
           [] st.op = "value" ->
                IF x.r = "raise" THEN Out("raised", x.v, L)
                ELSE RefEval(i + 1, [L EXCEPT ![NSlots + i] = x.v])
           [] st.op = "call" ->
                IF x.r = "raise" THEN Out("raised", x.v, L)
                ELSE IF x.v = NULL THEN Out("fault", NULL, L)
                ELSE IF st.f = "throw" THEN Out("raised", x.v, L)
                ELSE RefEval(i + 1, [L EXCEPT ![NSlots + i] = x.v])
           [] OTHER -> Out("fault", NULL, L)

\* no phi, PhiC, Upsilon, enter, leave or pop_exception; every branch points
\* forward and inside the unit; the last statement is a Return
Straight ==
    /\ Len(stmts) >= 1
    /\ stmts[Len(stmts)].op = "return"
    /\ \A i \in 1..Len(stmts) :
          /\ stmts[i].op \in {"goto", "gotoifnot", "return", "assign", "newvar",
                              "call", "value"}
          /\ stmts[i].op \in {"goto", "gotoifnot"}
                => stmts[i].n > i /\ stmts[i].n <= Len(stmts)

DriverOutcome ==
    Out(IF status \in {"abort", "crash"} THEN "fault" ELSE status, result, locals)

\* C1: for a unit without phi-nodes, PhiC/Upsilon nodes and handler-scope
\* statements, with forward branches only and a final Return, the driver
\* started at ip 0 ends with the outcome of the direct-style reference
\* evaluation: the same returned value or the same raised error, and the same
\* final slot and SSA storage.
C1_DriverMatchesDirectStyle ==
    (Straight /\ status # "run") => DriverOutcome = RefEval(1, init_locals)

\* a three-statement unit took its ConditionalGoto and returned after an
\* assignment changed the storage
C1_Witness ==
    /\ Straight
    /\ status = "returned"
    /\ Len(stmts) = 3
    /\ stmts[1].op = "gotoifnot"
    /\ stmts[2].op = "assign"
    /\ locals # init_locals
    /\ DriverOutcome = RefEval(1, init_locals)

\* index of the first statement at or after i that is no phi-node
PastPhis(i) == i + CountPhi(i)

\* `if x return a else return b`: one ConditionalGoto and two Returns
TwoBranch ==
    /\ Len(stmts) = 3
    /\ stmts[1] = GotoIfNot(Slot(1), 3)
    /\ stmts[2].op = "return"
    /\ stmts[3].op = "return"
    /\ init_locals[1].t = "bool"

\* C2: ConditionalGoto(cond, label) at ip: when cond is boolean false control
\* goes to the statement at label (1-based; past the phi run that is resolved
\* there), when it is boolean true to ip+1, and any other value raises a
\* type error that changes no slot and no SSA value. A two-branch unit with
\* one ConditionalGoto and two Returns returns the value of the branch its
\* condition selects.
C2_ConditionalGoto ==
    [][ /\ (status = "run" /\ ip < ns /\ Stmt(ip).op = "gotoifnot")
           => LET c == RefRead(Stmt(ip).a, locals)
                  label == Stmt(ip).n - 1
              IN /\ (c.r = "val" /\ c.v = jl_false)
                    => /\ last'.out = "next" => ip' = PastPhis(label) /\ status' = "run"
                       /\ CountPhi(label) = 0
                             => last'.out = "next" /\ locals' = locals
                 /\ (c.r = "val" /\ c.v = jl_true)
                    => /\ last'.out = "next" => ip' = PastPhis(ip + 1) /\ status' = "run"
                       /\ CountPhi(ip + 1) = 0
                             => last'.out = "next" /\ locals' = locals
                 /\ (c.r = "val" /\ c.v \notin {jl_true, jl_false})
                    => /\ excstack' = Append(excstack, TypeError)
                       /\ locals' = locals
                       /\ last'.out \in {"raise", "raised"}
        /\ (TwoBranch /\ status = "run" /\ status' = "returned")
           => result' = RefRead(IF init_locals[1] = jl_true THEN stmts[2].a
                                ELSE stmts[3].a, locals).v
      ]_vars

\* the two-branch unit was entered with a false condition and returned the
\* value of its second Return
C2_Witness ==
    /\ TwoBranch
    /\ status = "returned"
    /\ init_locals[1] = jl_false
    /\ stmts[2] = Return(Lit(1))
    /\ stmts[3] = Return(Slot(2))
    /\ result = IntV(2)
    /\ last.ip = 2

\* the edge list names every predecessor once
DistinctEdges(edges) ==
    \A i, j \in 1..Len(edges) : edges[i] = edges[j] => i = j

C4_NeverFetchesPhi ==
    (status = "run" /\ ip < ns) => Stmt(ip).op # "phi"

\* C5: in a unit whose Enter/Leave statements are properly nested and
\* matched, the handler stack is as deep after a Leave as it was right before
\* the Enter of the outermost scope that Leave closes (the Enter executed by
\* the frame that resumes), and at the Return of the invocation it is as deep
\* as at entry.
C5_HandlerBalance ==
    stmts \in MatchedHandlerUnits
    => /\ last.out = "leave" => Depth = frames[Len(frames)].depth0
       /\ status = "returned" => Depth = 0

\* both nested scopes were left by one Leave(2): the stack is empty again
C5_Witness ==
    /\ stmts \in NestedUnits
    /\ last.op = "leave" /\ last.out = "leave"
    /\ Stmt(last.ip).n = 2
    /\ last.frame = 3
    /\ Len(frames) = 1
    /\ Depth = 0

\* the e-th entry of the handler stack, counted from the innermost one
RECURSIVE NthHandler(_, _)
NthHandler(e, k) == IF k = 1 THEN e ELSE NthHandler(frames[e].prev, k - 1)

\* C6: Leave(n) at index L with at least n handler scopes of this activation
\* on the stack pops exactly n entries; the frame that executed the n-th
\* enclosing Enter becomes the running frame and executes L+1 next; the
\* frames nested in it are discarded.
C6_LeaveResumesAfterItself ==
    [][ (/\ status = "run" /\ ip < ns
         /\ Stmt(ip).op = "leave"
         /\ Stmt(ip).n >= 1
         /\ Depth >= Stmt(ip).n)
        => LET n == Stmt(ip).n
               target == NthHandler(eh, n)
           IN /\ status' = "run"
              /\ Depth' = Depth - n
              /\ eh' = frames[target].prev
              /\ Len(frames') = target
              /\ frames' = SubSeq(frames, 1, target)
              /\ frames[target].enter_ip # -1
              /\ ip' = ip + 1
              /\ continue_at' = 0
              /\ locals' = locals
      ]_vars

\* Leave(2) at index 4, executed by the third frame, resumed the first frame
\* at index 5
C6_Witness ==
    /\ stmts \in NestedUnits
    /\ last.op = "leave" /\ last.out = "leave" /\ last.ip = 4
    /\ last.frame = 3
    /\ Len(frames) = 1
    /\ ip = 5
    /\ eh = 0

\* index of the first statement at or after i that is no PhiC node
RECURSIVE PastPhiC(_)
PastPhiC(i) == IF i < ns /\ Stmt(i).op = "phic" THEN PastPhiC(i + 1) ELSE i

NoPhis == \A i \in 1..Len(stmts) : stmts[i].op # "phi"

\* C7: a raise while the innermost handler is one this activation entered by
\* Enter(catchIp) makes the frame that executed that Enter run the catch
\* block next (the first statement after the PhiC run at catchIp); the
\* pending resume index is 0 at the raise, and the storage is the one the
\* statements before the raise left.
C7_RaiseReachesCatch ==
    [][ (/\ status = "run"
         /\ eh # 0
         /\ last'.out = "raise"
         /\ excstack' # excstack)
        => /\ continue_at = 0
           /\ status' = "run"
           /\ ip' = PastPhiC(Stmt(frames[eh].enter_ip).n - 1)
           /\ Len(frames') = eh
           /\ frames' = Unwind(eh)
           /\ continue_at' = 0
           /\ NoPhis => locals' = locals
      ]_vars

\* throw in a protected region: the first frame is at the statement after the
\* PhiC of the catch block, and the value an Upsilon stored before the raise
\* is in the PhiC's slot
C7_Witness ==
    /\ stmts \in PhiCUnits
    /\ stmts[3] = Call("throw", Lit(7))
    /\ last.out = "raise" /\ last.ip = 2 /\ last.frame = 2
    /\ Len(frames) = 1
    /\ ip = 7
    /\ Loc(locals, NSlots + 6) = IntV(3)

\* statement E is an Enter that has executed
EnterDone(E) == Stmt(E).op = "enter" /\ wm[E] # -1

\* C8: Enter at index E stores the height of the exception log at that moment
\* in SSA slot E; no statement other than that Enter writes slot E afterwards;
\* after a pop_exception that refers to E the exception log is back at that
\* height, however many raises were logged in between.
C8_WatermarkRestored ==
    [][ /\ (status = "run" /\ ip < ns /\ Stmt(ip).op = "enter"
            /\ last'.out = "next")
           => Loc(locals', NSlots + ip) = jl_box_ulong(Len(excstack))
        /\ \A E \in 0..(ns - 1) :
              (EnterDone(E) /\ status = "run" /\ ip # E)
              => /\ Loc(locals', NSlots + E) = Loc(locals, NSlots + E)
                 /\ Loc(locals, NSlots + E) = jl_box_ulong(wm[E])
        /\ (/\ status = "run" /\ ip < ns
            /\ Stmt(ip).op = "pop_exception"
            /\ Stmt(ip).a.k = "ssa"
            /\ Stmt(ip).a.n - 1 \in 0..(ns - 1)
            /\ EnterDone(Stmt(ip).a.n - 1)
            /\ last'.out = "next")
           => /\ Len(excstack') = wm[Stmt(ip).a.n - 1]
              /\ excstack' = SubSeq(excstack, 1, wm[Stmt(ip).a.n - 1])
      ]_vars

\* the outer catch block of the nested unit popped the exception state after
\* two raises (the throw in the inner region, the undefined slot in the inner
\* catch block): the log is empty as at the outer Enter
C8_Witness ==
    /\ stmts \in NestedUnits
    /\ stmts[4] = Call("throw", Lit(8))
    /\ stmts[9] = Value(Slot(2))
    /\ Loc(locals, 1) = NULL
    /\ last.op = "pop_exception" /\ last.out = "next" /\ last.ip = 12
    /\ wm[0] = 0
    /\ wm[1] = 0
    /\ excstack = <<>>

\* statements whose first evaluation is the read of their operand
ReadsOperand(st) ==
    st.op \in {"gotoifnot", "return", "assign", "call", "value", "upsilon",
               "pop_exception"}

\* C9: after NewVariableScope on slot k, and until the next Assignment to
\* slot k, the slot is empty and every statement that reads it raises
\* UndefinedVariable for that slot, whatever the slot held before;
\* NewVariableScope itself changes no other slot and no SSA value.
C9_NewVarInvalidatesSlot ==
    [][ /\ \A k \in cleared :
              /\ Loc(locals, k - 1) = NULL
              /\ (status = "run" /\ ip < ns /\ ReadsOperand(Stmt(ip))
                  /\ Stmt(ip).a = Slot(k))
                 => /\ last'.out \in {"raise", "raised"}
                    /\ excstack' = Append(excstack, UndefVarError(k))
                    /\ locals' = locals
        /\ (status = "run" /\ ip < ns /\ Stmt(ip).op = "newvar"
            /\ Stmt(ip).n \in 1..NSlots)
           => /\ Stmt(ip).n \in cleared'
              /\ CountPhi(ip + 1) = 0
                 => /\ last'.out = "next"
                    /\ \A i \in 1..Len(locals) :
                          i # Stmt(ip).n => locals'[i] = locals[i]
                    /\ locals'[Stmt(ip).n] = NULL
      ]_vars

\* slot 1, bound to an argument at entry, was invalidated and then read by
\* the Return: the invocation ended with UndefinedVariable
C9_Witness ==
    /\ init_locals[1] = jl_true
    /\ Len(stmts) = 2
    /\ stmts[1] = NewVar(1)
    /\ stmts[2].a = Slot(1)
    /\ 1 \in cleared
    /\ status = "raised"
    /\ result = UndefVarError(1)

\* C10: the read of an in-range SSA reference whose defining statement has
\* not executed yet fails with an invalid-reference error; the empty content
\* is never handed on as a value. Stated for a Return in a unit with forward
\* branches only, whose operand names its own or a later statement.
C10_UndefinedSSAReadFails ==
    [][ (/\ Straight
         /\ status = "run" /\ ip < ns
         /\ Stmt(ip).op = "return"
         /\ Stmt(ip).a.k = "ssa"
         /\ Stmt(ip).a.n - 1 >= ip
         /\ Stmt(ip).a.n - 1 < nssa
         /\ Len(excstack) < MaxExc)
        => /\ status' = "raised"
           /\ result' = InvalidSSAError
      ]_vars

\* an activation that was given storage: jl_fptr_interpret_call allocates it;
\* jl_interpret_toplevel_expr_in allocates none
HasStorage == mi = "mi"

\* C11: a read of a slot number outside 1..nslots or of an SSA id outside
\* 1..nssavalues, and every such read in an activation without code unit or
\* without storage, raises the invalid-reference error (so storage is not
\* read); an in-range slot n is read from storage index n-1 and an in-range
\* SSA id from storage index nslots+id-1 (TLA+ indices n and nslots+id).
C11_ReferenceReadsAreChecked ==
    (status # "run" /\ last.op = "value") =>
        /\ expr.k = "slot" =>
              IF src = "null" \/ ~HasStorage \/ expr.n < 1 \/ expr.n > NSlots
              THEN status = "raised" /\ result = InvalidSlotError
              ELSE IF init_locals[expr.n] = NULL
              THEN status = "raised" /\ result = UndefVarError(expr.n)
              ELSE status = "returned" /\ result = init_locals[expr.n]
        /\ expr.k = "ssa" =>
              IF src = "null" \/ ~HasStorage \/ expr.n < 1 \/ expr.n > nssa
              THEN status = "raised" /\ result = InvalidSSAError
              ELSE status = "returned" /\ result = init_locals[NSlots + expr.n]

\* the errors the interpreter raises about its own code unit
ConsistencyFaults == {InvalidSSAError, InvalidSlotError, NoReturnError}

\* C12: a consistency fault (read of an out-of-range slot or SSA reference,
\* ip past the end of the statements) raised while a handler scope of the
\* same invocation is active is not delivered to the catch block: the
\* invocation ends there and executes no further statement.
C12_FaultsAreNotCaught ==
    [][ (/\ status = "run"
         /\ eh # 0
         /\ last'.out \in {"raise", "raised"}
         /\ Len(excstack') = Len(excstack) + 1
         /\ excstack'[Len(excstack')] \in ConsistencyFaults)
        => status' # "run"
      ]_vars

\* ------------------------------------------------------------------------
\* Claims about the foreign-call bridge (SpecBridge)
\* ------------------------------------------------------------------------
\* the events of one kind, in order
Events(kind) == SelectSeq(fx, LAMBDA e : e.ev = kind)
Lookups == [i \in 1..Len(Events("dlsym")) |-> Events("dlsym")[i].a]
CallFptrs == [i \in 1..Len(Events("call")) |-> Events("call")[i].a.fptr]

\* C13: a ForeignCall whose variadic marker (the required-argument count
\* operand) is non-zero fails with the unsupported-calling-convention error,
\* having resolved no symbol, built no native call frame and invoked no
\* native function.
C13_VariadicIsRefused ==
    (status # "run" /\ last.op = "foreigncall" /\ expr.nreq # 0) =>
        /\ status = "raised"
        /\ result.t = VarargError.t
        /\ excstack = <<VarargError>>
        /\ Events("load") = <<>>
        /\ Events("dlsym") = <<>>
        /\ Events("dcNewCallVM") = <<>>
        /\ Events("call") = <<>>

\* a variadic call of a symbol the loader would have found
C13_Witness ==
    /\ status = "raised"
    /\ last.op = "foreigncall"
    /\ expr.nreq = 1
    /\ expr.target = Target("symbol", "foo", "", NullAddr)
    /\ [lib |-> "internal", name |-> "ifoo"] \in dl.syms
    /\ result.t = VarargError.t

\* the three lookups in the order of the claim
SelectedLib(t) == IF t.k = "tuple" THEN t.lib ELSE "internal"
Tries(t) ==
    <<[lib |-> SelectedLib(t), name |-> "i" \o t.name],
      [lib |-> SelectedLib(t), name |-> t.name],
      [lib |-> "default", name |-> t.name]>>
Found(t) == {i \in 1..3 : Tries(t)[i] \in dl.syms}
FirstFound(t) == CHOOSE i \in Found(t) : \A j \in Found(t) : i <= j

\* C14: for a non-intrinsic symbol name (optionally paired with a library)
\* the lookups are, in this order and stopping at the first success: 'i' +
\* name in the selected library (the named one, else the internal one), name
\* in that library, name in the global default handle; the function invoked
\* is the first one found; when all three fail the call raises the
\* unresolved-symbol error and nothing is invoked.  A literal non-zero
\* address is used as is, with no lookup.
C14_ResolutionOrder ==
    (status # "run" /\ last.op = "foreigncall" /\ expr.nreq = 0) =>
        LET t == expr.target IN
        /\ (/\ t.k \in {"symbol", "string", "tuple"}
            /\ t.name \notin IntrinsicNames
            /\ t.k = "tuple" => t.lib \in dl.libs) =>
              IF Found(t) = {}
              THEN /\ status = "raised"
                   /\ result.t = SymbolError.t
                   /\ Lookups = Tries(t)
                   /\ Events("call") = <<>>
              ELSE /\ status = "returned"
                   /\ Lookups = SubSeq(Tries(t), 1, FirstFound(t))
                   /\ CallFptrs = <<Tries(t)[FirstFound(t)]>>
        /\ (t.k = "pointer" /\ t.addr # NullAddr) =>
              /\ Lookups = <<>>
              /\ Events("load") = <<>>
              /\ \A i \in 1..Len(CallFptrs) : CallFptrs[i] = t.addr
              /\ expr \in TargetCalls => Len(CallFptrs) = 1

\* the prefixed and the literal name are missing from the named library,
\* the global default handle has the name: three lookups, then the call
C14_Witness ==
    /\ status = "returned"
    /\ last.op = "foreigncall"
    /\ expr.target = Target("tuple", "foo", "libfoo", NullAddr)
    /\ dl.libs = {"libfoo"}
    /\ dl.syms = {[lib |-> "default", name |-> "foo"],
                  [lib |-> "internal", name |-> "ifoo"]}
    /\ Len(Lookups) = 3
    /\ CallFptrs = <<[lib |-> "default", name |-> "foo"]>>

\* C15: for each fixed-size primitive class (1, 2, 4, 8, 16 bytes) and every
\* bit pattern v, a ForeignCall of a loopback function declared with one
\* parameter of that type and the same return type returns a value whose
\* bits equal v, the upper 64 bits of a 16-byte value included.
C15_LoopbackRoundTrip ==
    (status # "run" /\ last.op = "foreigncall" /\ expr \in LoopCalls) =>
        /\ status = "returned"
        /\ result.t = expr.rt.name
        /\ result.v = expr.args[1].v

\* a primitive type of a size the bridge has no case for, or a type of no
\* class it knows
Unsupported(dt) ==
    \/ dt.kind = "bits" /\ dt.size \notin {0, 1, 2, 4, 8, 16}
    \/ dt.kind = "other"

\* C16: when a parameter type or the return type is a primitive type of
\* unsupported size or of an unsupported class, the bridge emits a
\* diagnostic and goes on with the opaque-pointer interpretation: the call
\* takes place, and the evaluation neither raises nor ends the process.
C16_UnsupportedTypesFallBack ==
    (/\ status # "run" /\ last.op = "foreigncall"
     /\ expr.nreq = 0
     /\ expr.target = Target("pointer", "", "", RawAddr)
     /\ \/ Unsupported(expr.rt)
        \/ \E i \in 1..Len(expr.at) : Unsupported(expr.at[i])) =>
        /\ status = "returned"
        /\ Events("diag") # <<>>
        /\ Len(Events("call")) = 1

\* C17: jl_capture_interp_frame needs 3 entries when the activation has a
\* method instance and 4 when it has none; with less space left it returns 0
\* and writes nothing; otherwise it returns exactly that count and writes
\* exactly that many entries: the non-pointer marker, a descriptor carrying
\* the activation's ip, the code reference (method instance, else code
\* unit, else nothing) and, only without a method instance, the module.
C17_CaptureFrame ==
    (bt # <<>> /\ bt.ret # -1) =>
        LET required == IF mi = "null" THEN 4 ELSE 3 IN
        IF bt.space < required
        THEN /\ bt.ret = 0
             /\ \A i \in 1..MaxSpace : bt.buf[i] = Unset
        ELSE /\ bt.ret = required
             /\ bt.buf[1] = JL_BT_NON_PTR_ENTRY
             /\ bt.buf[2].t = "descriptor"
             /\ bt.buf[2].v.header = ip
             /\ bt.buf[2].v.tag = "JL_BT_INTERP_FRAME_TAG"
             /\ bt.buf[3] = (IF mi # "null" THEN CodeRef("mi")
                             ELSE IF src # "null" THEN CodeRef("src")
                             ELSE jl_nothing)
             /\ mi = "null" => bt.buf[4] = TheModule
             /\ \A i \in (required + 1)..MaxSpace : bt.buf[i] = Unset

\* a top-level activation captured into a buffer with exactly 4 entries left
C17_Witness ==
    /\ bt # <<>>
    /\ mi = "null" /\ src = "code_info"
    /\ bt.space = 4
    /\ bt.ret = 4
    /\ bt.buf[4] = TheModule
    /\ ip = 2

\* what a task's own statements determine: its position, its nesting and
\* the handlers on its stack
Own(task) ==
    [ip |-> task.ip, depth |-> task.depth, status |-> task.status,
     eh |-> [i \in 1..Len(task.eh) |->
                [catch_ip |-> task.eh[i].catch_ip, depth |-> task.eh[i].depth]]]

\* C18: in every interleaving of two invocations on two tasks, the handler
\* stack of a task holds only handlers its own invocation entered, a leave
\* or a raise of a task lands only on a handler of that task, and the
\* task's position and handler stack are the ones the same statements
\* produce when the invocation runs alone.
C18_HandlerStacksAreIsolated ==
    tasks # <<>> =>
        \A t \in Tasks :
            LET task == tasks.sys[t] IN
            /\ \A i \in 1..Len(task.eh) : task.eh[i].owner = t
            /\ task.landed \in {0, t}
            /\ Own(task) = Own(Solo(task.prog, task.steps)[1])

\* task 2 has raised into its own handler while task 1 is inside two
\* handlers of its own
C18_Witness ==
    /\ tasks # <<>>
    /\ Len(tasks.sys[1].eh) = 2
    /\ tasks.sys[2].landed = 2
    /\ tasks.sys[2].ip = 4
    /\ Len(tasks.sys[2].eh) = 1
    /\ tasks.cur = 2

\* the (edge, value) entries of the phi-node st that name predecessor x,
\* in the order of the list
EntriesFor(st, x) ==
    LET pairs == [j \in 1..Len(st.edges) |-> <<st.edges[j], st.vals[j]>>]
        Names(p) == p[1] = x
    IN SelectSeq(pairs, Names)

\* the two runs differ at most in the order of entries that do not name
\* the explicit predecessor from+1 of their phi
ExplicitOrderKept(r1, r2) ==
    \A k \in DOMAIN r1.froms :
        /\ k \in DOMAIN r2.froms
        /\ EntriesFor(r1.stmts[k + 1], r1.froms[k] + 1)
              = EntriesFor(r2.stmts[k + 1], r1.froms[k] + 1)
        /\ EntriesFor(r1.stmts[k + 1], r2.froms[k] + 1)
              = EntriesFor(r2.stmts[k + 1], r2.froms[k] + 1)

\* the two runs differ at most in the order of entries that name different
\* predecessors
DuplicateOrderKept(r1, r2) ==
    \A k \in DOMAIN r1.froms :
        \A x \in 0..(MaxPhiUnit + 1) :
            EntriesFor(r1.stmts[k + 1], x) = EntriesFor(r2.stmts[k + 1], x)

\* C19 as stated: two runs of eval_phi from the same (from, to) pair and
\* the same storage write the same values into the same SSA slots and
\* return the same index whatever the order of the entries of each edge
\* list, provided duplicated explicit entries keep their relative order.
C19_OrderIndependent ==
    (phirun # <<>> /\ Len(phirun.runs) = 2
        /\ ExplicitOrderKept(phirun.runs[1], phirun.runs[2]))
    => phirun.runs[1].out = phirun.runs[2].out

\* C19 amended: the same, provided the entries that name one predecessor
\* twice, explicit or implicit, keep their relative order.
C19_OrderIndependentUpToDuplicates ==
    (phirun # <<>> /\ Len(phirun.runs) = 2
        /\ DuplicateOrderKept(phirun.runs[1], phirun.runs[2]))
    => phirun.runs[1].out = phirun.runs[2].out

\* two runs over three phis, the last one written in reverse order in the
\* second run, both moving the run's start to the implicit boundary
C19_Witness ==
    /\ phirun # <<>> /\ Len(phirun.runs) = 2
    /\ phirun.runs[1].stmts[4].edges = <<1, 2, 3>>
    /\ phirun.runs[2].stmts[4].edges = <<3, 2, 1>>
    /\ phirun.runs[2].froms[3] = 1
    /\ phirun.runs[2].out.r = "val"
    /\ phirun.runs[2].out.L[NSlots + 4] = IntV(3)

\* the operands of the invoke expression evaluated so far are f, a1, ...
\* in this order, once each, and never the target
EvaluatedInOrder == \A j \in 1..Len(fx.evals) : fx.evals[j] = j

\* C20: StaticInvoke with operands (target, f, a1, ..., ak) evaluates f,
\* a1, ..., ak left to right exactly once each, never the target, invokes
\* the target with callee f and arguments a1..ak, with the result of
\* Call(f, a1, ..., ak) when dispatch selects the target, and stores every
\* evaluated operand inside the buffer of nargs - 1 entries it allocated.
C20_StaticInvoke ==
    status # "run" =>
        LET call == do_call_n(Tail(expr.args), locals) IN
        /\ EvaluatedInOrder
        /\ status = "returned" =>
              /\ Len(fx.evals) = Len(expr.args) - 1
              /\ result.t = "applied"
              /\ result.v.meth = expr.args[1].v
              /\ <<result.v.f>> \o result.v.args = call.argv
              /\ Dispatch(result.v.f, result.v.args) = expr.args[1].v
                    => result = call.r.v
        /\ \A j \in 1..Len(fx.stores) : fx.stores[j] < fx.size

\* a plain expression statement: a call or a bare operand
IsPlain(st) == st.op \in {"call", "value"}

\* C21: a plain expression statement at index ip stores the value of the
\* expression into SSA slot ip and changes no slot and no other cell (the
\* phi-nodes of the block it falls into are resolved by the transfer that
\* follows); an SSA reference with id ip+1 then reads that value, and no
\* other statement changes it; if the evaluation raises, the storage is
\* left as it was.
C21_ExprStoresOwnSSA ==
    [][ /\ (status = "run" /\ ip < ns /\ IsPlain(Stmt(ip)))
           => LET res == eval_expr(Stmt(ip), ip, locals)
                  nphi == CountPhi(ip + 1)
              IN IF res.r = "val"
                 THEN /\ \A i \in 1..Len(locals) :
                            i \notin (NSlots + ip + 1)..(NSlots + ip + 1 + nphi)
                                => locals'[i] = locals[i]
                      /\ locals'[NSlots + ip + 1] = res.v
                      /\ eval_value(SSA(ip + 1), locals') = Val(res.v)
                 ELSE locals' = locals
        /\ \A i \in 0..(ns - 1) :
              (IsPlain(Stmt(i)) /\ ~(status = "run" /\ ip = i))
                  => locals'[NSlots + i + 1] = locals[NSlots + i + 1]
      ]_vars

\* the value a call stored in its SSA slot was read by the Return that
\* names it, after other statements ran in between
C21_Witness ==
    /\ status = "returned"
    /\ last.op = "return"
    /\ Stmt(last.ip).a.k = "ssa"
    /\ Stmt(last.ip).a.n \in 1..(ns - 2)
    /\ Stmt(Stmt(last.ip).a.n - 1).op = "call"
    /\ result = Loc(locals, NSlots + Stmt(last.ip).a.n - 1)
    /\ result # NULL

\* C22: Assignment(slot k, rhs) with 1 <= k <= nslots puts what rhs
\* evaluated to into slot k, so that a read of slot k returns that value
\* (a slot given 'no value' reads as unassigned), changes no other slot and no SSA
\* value (not the SSA cell of its own index; the phi-nodes of the block it
\* falls into are resolved by the transfer that follows), and leaves the
\* storage as it was when rhs raises; only an Assignment or a
\* NewVariableScope on slot k changes slot k.
C22_AssignStoresSlot ==
    [][ /\ (status = "run" /\ ip < ns /\ Stmt(ip).op = "assign"
            /\ Stmt(ip).n \in 1..NSlots)
           => LET rhs == eval_value(Stmt(ip).a, locals)
                  k == Stmt(ip).n
                  nphi == CountPhi(ip + 1)
              IN IF rhs.r = "val"
                 THEN /\ \A i \in 1..Len(locals) :
                            (i # k /\ i \notin (NSlots + ip + 2)..(NSlots + ip + 1 + nphi))
                                => locals'[i] = locals[i]
                      /\ locals'[k] = rhs.v
                      /\ rhs.v # NULL =>
                            eval_value(Slot(k), locals') = Val(rhs.v)
                 ELSE locals' = locals
        /\ \A k \in 1..NSlots :
              ~(status = "run" /\ ip < ns /\ Stmt(ip).op \in {"assign", "newvar"}
                /\ Stmt(ip).n = k)
                  => locals'[k] = locals[k]
      ]_vars

\* slot 2 was assigned, other statements ran, and the Return read the
\* assigned value from the slot
C22_Witness ==
    /\ status = "returned"
    /\ last.op = "return"
    /\ Stmt(last.ip).a = Slot(2)
    /\ \E i \in 0..(last.ip - 2) :
          /\ Stmt(i).op = "assign" /\ Stmt(i).n = 2
          /\ Stmt(i).a.k = "int"
          /\ result = IntV(Stmt(i).a.n)
          /\ init_locals[2] # result

\* the PhiC nodes of the consecutive run that starts at index c
RECURSIVE PhiCRun(_)
PhiCRun(c) ==
    IF c >= 0 /\ c < ns /\ Stmt(c).op = "phic" THEN {c} \cup PhiCRun(c + 1) ELSE {}

\* the Upsilon at index u is listed by the PhiC at index c
Lists(c, u) == \E j \in 1..Len(Stmt(c).vals) : Stmt(c).vals[j] = SSA(u + 1)

\* C23: Enter(catchIp) resets the SSA cell of every PhiC of the run at
\* catchIp to 'no value' and leaves in the SSA cell of every Upsilon such a
\* PhiC lists a reference to that PhiC; an Upsilon executed afterwards
\* writes its operand's value (or 'no value') into the cell of the PhiC its
\* own cell refers to and changes neither its own cell nor any other cell
\* (the phi-nodes of the block it falls into are resolved by the transfer
\* that follows), and nothing when its operand raises; no other statement
\* and no raise changes a PhiC's cell, so the catch block finds there the
\* value of the last paired Upsilon executed since the Enter, or 'no value'.
C23_UpsilonReachesPhiC ==
    [][ /\ (status = "run" /\ ip < ns /\ Stmt(ip).op = "enter"
            /\ last'.op = "enter" /\ last'.out = "next")
           => \A c \in PhiCRun(Stmt(ip).n - 1) :
                 /\ locals'[NSlots + c + 1] = NULL
                 /\ \A u \in 0..(ns - 1) :
                       (Lists(c, u)
                        /\ \A d \in PhiCRun(c + 1) : ~Lists(d, u))
                         => locals'[NSlots + u + 1] = jl_box_ssavalue(c + 1)
        /\ (status = "run" /\ ip < ns /\ Stmt(ip).op = "upsilon"
            /\ locals[NSlots + ip + 1].t = "ssavalue")
           => LET val == IF Stmt(ip).a = NullOp THEN Val(NULL)
                         ELSE eval_value(Stmt(ip).a, locals)
                  c == locals[NSlots + ip + 1].v - 1
                  nphi == CountPhi(ip + 1)
              IN IF val.r = "val"
                 THEN /\ locals'[NSlots + c + 1] = val.v
                      /\ \A i \in 1..Len(locals) :
                            (i # NSlots + c + 1
                             /\ i \notin (NSlots + ip + 2)..(NSlots + ip + 1 + nphi))
                                => locals'[i] = locals[i]
                 ELSE locals' = locals
        /\ \A c \in 0..(ns - 1) :
              (Stmt(c).op = "phic"
               /\ ~(status = "run" /\ ip < ns /\ Stmt(ip).op = "enter"
                    /\ c \in PhiCRun(Stmt(ip).n - 1))
               /\ ~(status = "run" /\ ip < ns /\ Stmt(ip).op = "upsilon"
                    /\ locals[NSlots + ip + 1] = jl_box_ssavalue(c + 1)))
                  => locals'[NSlots + c + 1] = locals[NSlots + c + 1]
      ]_vars

\* two Upsilons ran since the Enter, the statement after them raised, and
\* the catch block starts with each PhiC cell holding its Upsilon's value
C23_Witness ==
    /\ stmts \in TwoPhiCUnits
    /\ last.out = "raise" /\ last.ip = 3
    /\ ip = 8
    /\ Loc(locals, NSlots + 6) = IntV(3)
    /\ Loc(locals, NSlots + 7) = Loc(init_locals, 0)
    /\ Loc(locals, NSlots + 7) # NULL
    /\ Loc(locals, NSlots + 1) = jl_box_ssavalue(7)
    /\ Loc(locals, NSlots + 2) = jl_box_ssavalue(8)

\* a run of eval_phi has just ended: its code unit is stmts, it started from
\* the storage init_locals and ended as LastRun.out
AfterRun == phirun # <<>> /\ ~phirun.fresh /\ Len(phirun.runs) >= 1
LastRun == phirun.runs[Len(phirun.runs)]
RunPhis == phirun.to..(phirun.to + CountPhi(phirun.to) - 1)

\* the entry chosen for the phi at index k and the block start after its scan
Sel(k) ==
    ScanEdges(Stmt(k).edges, 0, -1, ToAt(ip, phirun.to, 0, k),
              FromAt(ip, phirun.to, 0, k), k + 1)

\* the selected operand of the phi at index k evaluated against storage L
SelectedIn(k, L) ==
    IF Sel(k).edge = -1 \/ Stmt(k).vals[Sel(k).edge + 1] = NullOp THEN Val(NULL)
    ELSE eval_value(Stmt(k).vals[Sel(k).edge + 1], L)

\* C24 as stated: every phi of the run has its selected operand evaluated
\* against the storage as it was before eval_phi was called, and when an
\* operand raises no SSA cell of the run has been modified.
C24_PhiRunIsAtomic ==
    AfterRun =>
        /\ LastRun.out.r = "val" =>
              \A k \in RunPhis :
                  LastRun.out.L[NSlots + k + 1] = SelectedIn(k, init_locals).v
        /\ LastRun.out.r # "val" =>
              \A k \in RunPhis :
                  LastRun.out.L[NSlots + k + 1] = init_locals[NSlots + k + 1]

\* the storage the phi at index k is evaluated against: the storage before
\* eval_phi was called, with the cells of the phis before the block start
\* of k holding their selected values
RECURSIVE BlockStorage(_)
BlockStorage(k) ==
    [c \in 1..Len(init_locals) |->
        IF (c - 1 - NSlots) \in phirun.to..(Sel(k).closest - 1)
        THEN SelectedIn(c - 1 - NSlots, BlockStorage(c - 1 - NSlots)).v
        ELSE init_locals[c]]

\* C24 amended: within each block of the run (the phis between two implicit
\* block boundaries) the resolution is atomic: every phi has its selected
\* operand evaluated against the storage as it was before eval_phi was
\* called, in which only the cells of the phis before its block start hold
\* their new values; when an operand raises, only those cells have been
\* modified.
C24_PhiBlockIsAtomic ==
    AfterRun =>
        /\ LastRun.out.r = "val" =>
              \A k \in RunPhis :
                  LastRun.out.L[NSlots + k + 1] = SelectedIn(k, BlockStorage(k)).v
        /\ LastRun.out.r # "val" =>
              LET Fails(k) == SelectedIn(k, BlockStorage(k)).r # "val"
                  k == CHOOSE k \in RunPhis :
                          Fails(k) /\ \A j \in RunPhis : j < k => ~Fails(j)
              IN LastRun.out.L = BlockStorage(k)

\* two phis of one block that name each other have exchanged their values
C24_Witness ==
    /\ AfterRun
    /\ stmts[3].vals = <<SSA(4)>> /\ stmts[4].vals = <<SSA(3)>>
    /\ LastRun.out.r = "val"
    /\ locals[NSlots + 3] = init_locals[NSlots + 4]
    /\ locals[NSlots + 4] = init_locals[NSlots + 3]
    /\ locals[NSlots + 3] # locals[NSlots + 4]

\* the largest element of a non-empty set of numbers
MaxOf(S) == CHOOSE x \in S : \A y \in S : y <= x

\* the entries (1-based statement numbers) of the phi at index p that name a
\* fall-through from an earlier phi of the block that starts at b
FallThroughs(p, b) ==
    {Stmt(p).edges[j] : j \in 1..Len(Stmt(p).edges)}
        \cap {e \in 0..(MaxPhiUnit + 1) : b < e /\ e <= p}

\* the block start when the phi at index p is reached, by the rule: the
\* largest fall-through entry found by an earlier phi
RECURSIVE RuleStart(_)
RuleStart(p) ==
    IF p <= phirun.to THEN phirun.to
    ELSE LET b == RuleStart(p - 1) IN
         IF FallThroughs(p - 1, b) # {} THEN MaxOf(FallThroughs(p - 1, b)) ELSE b

\* the predecessor the phi at index p is entered from
RuleFrom(p) == IF RuleStart(p) = phirun.to THEN ip ELSE RuleStart(p) - 1

\* the position in the edge list the rule selects, 0 when it selects none
RuleEntry(p) ==
    LET edges == Stmt(p).edges
        ft == FallThroughs(p, RuleStart(p))
        wanted == IF ft # {} THEN MaxOf(ft) ELSE RuleFrom(p) + 1
        hits == {j \in 1..Len(edges) : edges[j] = wanted}
    IN IF hits = {} THEN 0 ELSE CHOOSE j \in hits : \A h \in hits : j <= h

\* the value the rule gives the phi at index p, its operand read from L
RuleValue(p, L) ==
    IF RuleEntry(p) = 0 \/ Stmt(p).vals[RuleEntry(p)] = NullOp THEN Val(NULL)
    ELSE eval_value(Stmt(p).vals[RuleEntry(p)], L)

\* the storage the operand of the phi at index p is read from: the cells
\* of the phis of earlier blocks hold their values
RECURSIVE RuleStorage(_)
RuleStorage(p) ==
    [c \in 1..Len(init_locals) |->
        IF (c - 1 - NSlots) \in phirun.to..(RuleStart(p + 1) - 1)
        THEN RuleValue(c - 1 - NSlots, RuleStorage(c - 1 - NSlots)).v
        ELSE init_locals[c]]

\* C25: for the phi at position p of a run whose current block start is to,
\* entered from statement from: when the edge list has entries e with
\* to < e <= p the value of the largest such e is selected, wherever an
\* entry equal to from+1 stands in the list; otherwise the value of the
\* first entry equal to from+1; otherwise, or when the selected value is
\* absent, the phi's SSA cell is set to 'no value' over its old content.
C25_EdgeSelection ==
    (AfterRun /\ LastRun.out.r = "val") =>
        \A p \in RunPhis :
            LastRun.out.L[NSlots + p + 1] = RuleValue(p, RuleStorage(p)).v

\* the third phi of a run took its fall-through entry although the entry
\* for its predecessor comes first in the list
C25_Witness ==
    /\ AfterRun /\ LastRun.out.r = "val"
    /\ ns = 5 /\ stmts[4].op = "phi"
    /\ stmts[4].edges = <<1, 2, 3>>
    /\ RuleFrom(3) = 1
    /\ RuleEntry(3) = 3
    /\ init_locals[NSlots + 4] # IntV(3)
    /\ locals[NSlots + 4] = IntV(3)

\* C26: after eval_phi returns from a run of nphi phi-nodes starting at to,
\* with any number of implicit block boundaries found inside the run, the
\* returned index is to+nphi, the SSA cell of every statement to+i of the
\* run holds the value selected for the phi at to+i, and no other storage
\* cell is written; when the statement at to is not a phi-node, to is
\* returned and nothing is written.
C26_RunLandsInItsCells ==
    (AfterRun /\ LastRun.out.r = "val") =>
        /\ LastRun.out.ip = phirun.to + Cardinality(RunPhis)
        /\ \A k \in phirun.to..(LastRun.out.ip - 1) : Stmt(k).op = "phi"
        /\ LastRun.out.ip < ns => Stmt(LastRun.out.ip).op # "phi"
        /\ \A c \in 1..Len(locals) :
              locals[c] = IF (c - 1 - NSlots) \in RunPhis
                          THEN RuleValue(c - 1 - NSlots,
                                         RuleStorage(c - 1 - NSlots)).v
                          ELSE init_locals[c]

\* a run of three phis whose third finds a boundary after the first: the
\* second value was collected before the boundary was known and still lands
\* in the second cell
C26_Witness ==
    /\ AfterRun /\ LastRun.out.r = "val"
    /\ phirun.to = 1 /\ LastRun.out.ip = 4
    /\ RuleStart(3) = 1 /\ RuleStart(4) = 2
    /\ locals[NSlots + 2] = IntV(4)
    /\ locals[NSlots + 3] = IntV(6)
    /\ locals[NSlots + 4] = IntV(2)
    /\ \A c \in 1..NSlots : locals[c] = init_locals[c]

\* an isdefined query on a slot, global or static-parameter reference of a
\* well-formed unit was evaluated in an activation that has storage
QueryDone ==
    /\ last.op = "value"
    /\ expr.k = "isdefined"
    /\ expr.sym.k \in {"slot", "globalref", "symbol", "static_parameter"}
    /\ mi = "mi"

\* C27: IsDefinedQuery on a slot reference, a global reference or a
\* static-parameter reference returns boolean true or false and never
\* raises; an unset slot, an unbound global and a static parameter that is
\* still a type variable or whose index exceeds the bound static-parameter
\* values yield false; the query changes no storage.
C27_IsDefinedNeverRaises ==
    QueryDone =>
        /\ status = "returned"
        /\ result \in {jl_true, jl_false}
        /\ locals = init_locals
        /\ (expr.sym.k = "slot" /\ init_locals[expr.sym.n] = NULL)
               => result = jl_false
        /\ (expr.sym.k \in {"globalref", "symbol"} /\ expr.sym.n \notin module.bound)
               => result = jl_false
        /\ (expr.sym.k = "static_parameter"
              /\ (sparam_vals.null \/ expr.sym.n > Len(sparam_vals.vals)))
               => result = jl_false
        /\ (expr.sym.k = "static_parameter" /\ ~sparam_vals.null
              /\ expr.sym.n <= Len(sparam_vals.vals)
              /\ sparam_vals.vals[expr.sym.n] = TypeVarV)
               => result = jl_false

\* a metadata statement is about to be executed
AtMeta == status = "run" /\ ip < ns /\ Stmt(ip).op = "expr"

\* every storage cell but the SSA cell of the statement at ip is kept
OnlyOwnCell ==
    \A c \in 1..Len(locals) : c # NSlots + ip + 1 => locals'[c] = locals[c]

\* nothing but storage and the position changes
NoOtherEffect ==
    /\ status' = "run" /\ ip' = ip + 1
    /\ excstack' = excstack /\ frames' = frames /\ eh' = eh
    /\ result' = result /\ continue_at' = continue_at

CallDone == last.op = "foreigncall" /\ expr.nreq = 0

\* C29: a ForeignCall whose target symbol name is one of the intrinsic
\* names (jl_value_ptr, jl_symbol_n, jl_symbol_name, jl_dlsym) never
\* resolves that name, never builds a native call frame and never invokes a
\* native function through the call bridge; the test is made on the symbol
\* name only, so one of the four functions given as a literal address is
\* called natively.
C29_IntrinsicsBypassTheBridge ==
    CallDone =>
        /\ (expr.target.k \in {"symbol", "string", "tuple"}
              /\ expr.target.name \in IntrinsicNames) =>
                /\ \A i \in 1..Len(Lookups) :
                      Lookups[i].name \notin {expr.target.name,
                                              "i" \o expr.target.name}
                /\ Events("load") = <<>>
                /\ Events("dcNewCallVM") = <<>>
                /\ Events("call") = <<>>
        /\ (expr.target.k = "pointer"
              /\ expr.target.addr.name \in IntrinsicNames) =>
                /\ Lookups = <<>>
                /\ Len(Events("dcNewCallVM")) = 1
                /\ CallFptrs = <<expr.target.addr>>
                /\ status = "returned"

\* jl_dlsym named with a library looked up the name it was asked for and
\* nothing else, and the library of the target was not loaded
C29_Witness ==
    /\ CallDone
    /\ expr.target = Target("tuple", "jl_dlsym", "libfoo", NullAddr)
    /\ status = "returned"
    /\ fx = <<Ev2("dlsym", [lib |-> "internal", name |-> "foo"])>>

\* the 1-based positions of the arguments whose type is not the declared
\* one while both are primitive
Mismatched ==
    {k \in 1..Len(expr.at) :
        /\ expr.args[k].t # expr.at[k].name
        /\ jl_is_primitivetype(expr.at[k])
        /\ expr.args[k].t \in PrimitiveNames}

\* C30: for every ForeignCall argument whose runtime type differs from its
\* declared parameter type while both are primitive, the conversion is
\* requested with the declared type as its target and the value pushed into
\* the native call frame is the argument converted to the declared type;
\* arguments whose type is the declared one are pushed unchanged.
C30_ArgumentsAreConverted ==
    (CallDone /\ expr.target.k = "pointer" /\ expr \in ConvertCalls) =>
        /\ status = "returned"
        /\ Len(Events("convert")) = Cardinality(Mismatched)
        /\ \A i \in 1..Len(Events("convert")) :
              \E k \in Mismatched :
                  Events("convert")[i].a = <<expr.at[k], expr.args[k]>>
        /\ Len(Events("call")) = 1
        /\ \A k \in 1..Len(expr.at) :
              Events("call")[1].a.vm[k].p =
                  IF k \in Mismatched
                  THEN convert(<<expr.at[k], expr.args[k]>>).v.v
                  ELSE Take(expr.args[k].v, expr.at[k].size)

\* the evaluation reached the real call: a call frame was made
RealCall == CallDone /\ Events("dcNewCallVM") # <<>>

\* C31: every ForeignCall evaluation that takes the real-call path invokes
\* the resolved native function exactly once, whatever the class of the
\* return type, and at most once when the evaluation ends in an error.
C31_CalledExactlyOnce ==
    RealCall =>
        /\ status = "returned" => Len(CallFptrs) = 1
        /\ status # "returned" => Len(CallFptrs) <= 1
        /\ \A i \in 1..Len(CallFptrs) : CallFptrs[i] # NullAddr

\* C38: every native call frame builder that a ForeignCall evaluation
\* creates is released before the evaluation ends, on every exit path: the
\* normal return for each return-type class, and the error raised for a
\* reference return type whose parameter is an immutable type.
C38_CallFrameIsReleased ==
    (last.op = "foreigncall" /\ status \in {"returned", "raised"}) =>
        /\ Len(Events("dcFree")) = Len(Events("dcNewCallVM"))
        /\ Events("dcNewCallVM") # <<>> => fx[Len(fx)].ev = "dcFree"

\* ------------------------------------------------------------------------
\* Termination of straight-line control flow
\* ------------------------------------------------------------------------
\* every Goto and ConditionalGoto of the unit points forward and the unit
\* has no handler-scope statement
ForwardOnly ==
    \A i \in 1..Len(stmts) :
        /\ stmts[i].op \in {"goto", "gotoifnot"} => stmts[i].n > i
        /\ stmts[i].op \notin {"enter", "leave", "pop_exception"}

\* C33: in a unit whose branches all point forward and that has no
\* handler-scope statement, every statement the driver executes moves the
\* instruction pointer forward or ends the invocation, so at most ns
\* statements execute; the invocation ends by returning the value of a
\* Return or by raising, and with the instruction pointer at ns it raises
\* the missing-return error without fetching a statement.
C33_ForwardUnitsTerminate ==
    [][(ForwardOnly /\ status = "run") =>
          /\ status' = "run" => (ip' > ip /\ ip < ns)
          /\ status' # "run" =>
                \/ /\ status' = "returned"
                   /\ ip < ns /\ Stmt(ip).op = "return"
                   /\ result' = eval_value(Stmt(ip).a, locals).v
                \/ status' = "raised"
          /\ ip >= ns => (status' = "raised" /\ result' = NoReturnError)]_vars

\* ------------------------------------------------------------------------
\* The pending resume index
\* ------------------------------------------------------------------------
\* C34: the pending resume index is 0 whenever the driver is about to fetch
\* a statement, from the entry of the invocation on; only a
\* LeaveHandlerScope makes it non-zero and the resumption at the targeted
\* EnterHandlerScope resets it before the next statement runs, so a raise
\* caught by an EnterHandlerScope of the activation continues at that
\* handler's catch target and never at a resume index.
C34_ResumeIndexIsTransient ==
    /\ status = "run" => continue_at = 0
    /\ [][/\ status' = "run" => continue_at' = 0
          /\ continue_at' # 0 => (status = "run" /\ ip < ns
                                  /\ Stmt(ip).op = "leave")
          /\ (status = "run" /\ last'.out = "raise")
                => (eh # 0 /\ ip' = frames[eh].catch_ip)]_vars

\* a raise caught in the second round of a loop, after the
\* LeaveHandlerScope of the first round has resumed
C34_Witness ==
    /\ stmts \in LoopUnits
    /\ last.out = "raise" /\ status = "run"
    /\ init_locals[1] = jl_true /\ Loc(locals, 0) = jl_false
    /\ ip = frames[eh].catch_ip

\* ------------------------------------------------------------------------
\* Driver frames and handler scopes
\* ------------------------------------------------------------------------
\* the handler-stack entries this activation has pushed and not popped
HandlerEntries == Chain(eh, MaxFrames + 1)

\* the driver is about to fetch the statement at ip
AtFetch == status = "run" /\ ip < ns

\* at the fetch of an EnterHandlerScope of a unit with matched regions, no
\* entry of an earlier execution of the same statement is on the stack, and
\* no entry belongs to a frame that is gone
NoStaleEntries ==
    /\ (stmts \in MatchedHandlerUnits /\ Stmt(ip).op = "enter")
          => \A e \in HandlerEntries : frames[e].enter_ip # ip
    /\ eh <= Len(frames)

C36_ReturnLeavesNoHandler ==
    [][(AtFetch /\ Stmt(ip).op = "return" /\ eh # 0
            /\ eval_value(Stmt(ip).a, locals).r = "val")
          => /\ status' = "returned"
             /\ result' = eval_value(Stmt(ip).a, locals).v
             /\ eh' = 0]_vars

\* ------------------------------------------------------------------------
\* Stores into the storage array
\* ------------------------------------------------------------------------
\* the storage cells a step changes
Changed == {i \in 0..(Len(locals) - 1) : Loc(locals', i) # Loc(locals, i)}

\* the statement at ip is an Assignment or NewVariableScope whose slot
\* number is not one of 1..nslots, and its operand evaluates
BadSlotStmt ==
    /\ Stmt(ip).op \in {"assign", "newvar"}
    /\ Stmt(ip).n \notin 1..NSlots
    /\ Stmt(ip).op = "assign" => eval_value(Stmt(ip).a, locals).r = "val"

\* C37: every store of the driver lands inside the storage array: an
\* Assignment or NewVariableScope with a slot number outside 1..nslots is
\* rejected, no cell changes and the invocation does not go on; the stores
\* of plain statements, EnterHandlerScope, Upsilon and phi resolution land
\* in the SSA cells and never outside the array, the unit having as many
\* SSA values as statements.
C37_StoresStayInStorage ==
    [][AtFetch =>
          /\ BadSlotStmt =>
                /\ Changed = {}
                /\ status' = "abort" \/ last'.out \in {"raise", "raised"}
          /\ Stmt(ip).op \in {"call", "value", "enter", "upsilon", "goto",
                              "gotoifnot"}
                => \A i \in Changed : i >= NSlots
          /\ Len(locals') = NSlots + ns]_vars

\* ------------------------------------------------------------------------
\* two evaluations on two threads: top-level thunks
\* (jl_interpret_toplevel_thunk) and method bodies (jl_fptr_interpret_call)
\* ------------------------------------------------------------------------
Threads == 1..2

\* the world counter stops growing here
MaxWorld == 3

\* a LineNumberNode, a global assignment `name g = a`
LineNode(n) == MkStmt("line", NullOp, n, <<>>, <<>>, "")
AssignGlobal(g, a) == MkStmt("assign_global", a, g, <<>>, <<>>, "")

\* code units of the threads: line nodes, a directive, a global assignment,
\* a raise that nothing catches, a unit without Return
ThunkUnits ==
    {<<LineNode(3), Value(Lit(1)), Return(Lit(1))>>,
     <<LineNode(5), Call("throw", Lit(7)), Return(Lit(1))>>,
     <<Expr("meta", <<jl_optlevel_sym, Lit(2)>>), Return(Lit(1))>>,
     <<AssignGlobal(1, Lit(4)), Return(Lit(1))>>,
     <<Value(Lit(1))>>}

\* a location of memory: a field of the activation record of invocation id
\* (obj "s"), of task id (obj "ct"), of module id (obj "module"), a binding
\* of module id (obj "binding"), or a variable of the process (obj "global")
Location(obj, id, field) == [obj |-> obj, id |-> id, field |-> field]

\* the invocation on thread t right after its entry point has set up the
\* activation: s->module = m, s->continue_at = 0, and for a top-level thunk
\* last_age = ct->world_age
NewThread(t, prog, top, m, age) ==
    [prog |-> prog, ip |-> 0, status |-> "run", toplevel |-> top,
     module |-> m, world_age |-> age, last_age |-> age, result |-> NULL,
     wr |-> {Location("s", t, f) : f \in {"locals", "module", "continue_at"}}]

\* one round of the loop of eval_body on thread t, the entry point's exit
\* included; g holds the threads and the memory they share
ThunkStmt(g, t) ==
    LET me == g.sys[t]
        ct == CurrentTask(t)
        stmt == me.prog[me.ip + 1]
        \* s->ip = ip
        g1 == [g EXCEPT !.cur = t,
                        !.sys[t].wr = @ \cup {Location("s", t, "ip")}]
        \* if (toplevel) ct->world_age = jl_world_counter
        g2 == IF me.toplevel
              THEN [g1 EXCEPT !.sys[ct].world_age = g.jl_world_counter,
                              !.sys[t].wr =
                                  @ \cup {Location("ct", ct, "world_age")}]
              ELSE g1
        Wrote(gg, l) == [gg EXCEPT !.sys[t].wr = @ \cup {l}]
        Next1(gg) == [gg EXCEPT !.sys[t].ip = me.ip + 1]
        \* eval_stmt_value
        Stored == Next1(Wrote(g2, Location("s", t, "locals")))
    IN IF me.ip >= Len(me.prog)
       THEN [g1 EXCEPT !.sys[t].status = "raised",
                       !.sys[t].result = NoReturnError]
       ELSE CASE stmt.op = "return" ->
                 \* r = eval_body(...); ct->world_age = last_age
                 LET g3 == [g2 EXCEPT !.sys[t].status = "returned",
                                      !.sys[t].result = IntV(stmt.a.n)]
                 IN IF me.toplevel
                    THEN [g3 EXCEPT !.sys[ct].world_age = me.last_age]
                    ELSE g3
              [] stmt.op = "call" /\ stmt.f = "throw" ->
                 [g2 EXCEPT !.sys[t].status = "raised",
                            !.sys[t].result = IntV(stmt.a.n)]
              [] stmt.op = "assign_global" ->
                 \* jl_checked_assignment(jl_get_binding_wr(modu, sym, 1), rhs)
                 Next1(Wrote([g2 EXCEPT !.mods[me.module].bound =
                                            @ \cup {stmt.n}],
                             Location("binding", me.module, "value")))
              [] stmt.op = "expr" /\ stmt.f = "meta" /\ me.toplevel ->
                 Next1(Wrote([g2 EXCEPT !.mods[me.module] =
                                            SetModule(@, stmt.vals)],
                             Location("module", me.module, "settings")))
              [] stmt.op = "line" /\ me.toplevel ->
                 \* jl_lineno = jl_linenode_line(stmt)
                 Next1(Wrote([g2 EXCEPT !.jl_lineno = stmt.n],
                             Location("global", 0, "jl_lineno")))
              [] OTHER -> Stored

InitThreads ==
    /\ ofi = NoCall
    /\ toplevel = FALSE
    /\ module = NewModule
    /\ sparam_vals = NoSparams
    /\ \E p \in ThunkUnits, q \in ThunkUnits, tp \in BOOLEAN, tq \in BOOLEAN,
          m \in 1..2, age \in 1..2, c \in 1..2 :
          /\ age <= c
          /\ tasks = [sys |-> <<NewThread(1, p, tp, 1, age),
                                NewThread(2, q, tq, m, age)>>,
                      cur |-> 0, jl_lineno |-> 0, jl_world_counter |-> c,
                      mods |-> [i \in 1..2 |-> NewModule]]
    /\ stmts = <<>>
    /\ src = "code_info"
    /\ mi = "mi"
    /\ locals = NoLocals
    /\ init_locals = locals
    /\ ip = 0
    /\ frames = <<NewFrame>>
    /\ eh = 0
    /\ continue_at = 0
    /\ excstack = <<>>
    /\ status = "run"
    /\ result = NULL
    /\ ndebug \in BOOLEAN
    /\ wm = <<>>
    /\ cleared = {}
    /\ last = [op |-> "", ip |-> -1, frame |-> 0, out |-> "", nxt |-> -1]
    /\ expr = NullOp
    /\ dl = {}
    /\ fx = <<>>
    /\ bt = <<>>
    /\ phirun = <<>>

\* thread t runs one round of its driver loop
ThreadStep(t) ==
    /\ tasks.sys[t].status = "run"
    /\ tasks' = ThunkStmt(tasks, t)
    /\ UNCHANGED <<stmts, locals, ip, frames, eh, continue_at, excstack, status,
                   result, ndebug, init_locals, wm, cleared, last, src, mi,
                   expr, dl, fx, bt, phirun,
                   toplevel, module, sparam_vals, ofi>>

\* a method definition somewhere in the process: jl_world_counter grows
WorldStep ==
    /\ tasks.jl_world_counter < MaxWorld
    /\ \E t \in Threads : tasks.sys[t].status = "run"
    /\ tasks' = [tasks EXCEPT !.jl_world_counter = @ + 1, !.cur = 0]
    /\ UNCHANGED <<stmts, locals, ip, frames, eh, continue_at, excstack, status,
                   result, ndebug, init_locals, wm, cleared, last, src, mi,
                   expr, dl, fx, bt, phirun,
                   toplevel, module, sparam_vals, ofi>>

NextThreads == (\E t \in Threads : ThreadStep(t)) \/ WorldStep

SpecThreads == InitThreads /\ [][NextThreads]_vars

\* C39: a top-level thunk evaluation refreshes the task's world age from
\* the world counter before each statement and leaves it equal to its
\* value at entry when it is over, after a normal return and after a raise
\* that leaves the interpreter.
C39_WorldAgeRestored ==
    [][\A t \in Threads :
          (tasks.sys[t].toplevel /\ tasks.sys[t].status = "run"
              /\ tasks'.cur = t)
            => /\ tasks'.sys[t].status = "run"
                    => tasks'.sys[t].world_age = tasks.jl_world_counter
               /\ tasks'.sys[t].status # "run"
                    => tasks'.sys[t].world_age = tasks.sys[t].last_age]_vars

\* the locations both threads have written
WrittenByBoth == tasks.sys[1].wr \cap tasks.sys[2].wr

\* C32: two invocations on different threads, top-level evaluations
\* included, write no common location other than global bindings of
\* modules: activation storage, ip, the pending resume index, the world age
\* and the current line number belong to one invocation or one task.
C32_OnlyBindingsAreShared ==
    \A l \in WrittenByBoth : l.obj = "binding"

\* ------------------------------------------------------------------------
\* ObjectFileInterface.cpp: addInitSymbol
\* ------------------------------------------------------------------------
\* a string is a sequence of tokens: "$." and ".__inits." are tokens of
\* their own, every other token is one character other than '$', '.', '_'

\* the largest number of init names the interface holds at entry
MaxTaken == 11

Digit(d) == <<"0", "1", "2", "3", "4", "5", "6", "7", "8", "9">>[d + 1]

\* raw_ostream << size_t: the decimal digits, most significant first
RECURSIVE Decimal(_)
Decimal(n) ==
    IF n < 10 THEN <<Digit(n)>>
    ELSE Append(Decimal(n \div 10), Digit(n % 10))

\* "$." << ObjFileName << ".__inits." << Counter
InitSymString(ObjFileName, Counter) ==
    <<"$.">> \o ObjFileName \o <<".__inits.">> \o Decimal(Counter)

\* ES.intern: one pooled entry per string, equal exactly when the strings are
intern(str) == str

MaterializationSideEffectsOnly == "MaterializationSideEffectsOnly"

\* the loop test finding every name unused
count_m(SymbolFlags, sym) == 0

\* I.SymbolFlags.count(sym)
count(SymbolFlags, sym) == IF sym \in DOMAIN SymbolFlags THEN 1 ELSE 0

\* no init symbol
NoSymbol == <<>>

ObjFileNames == {<<"a">>, <<"a", ".__inits.", "1">>}

\* the counters whose init names are taken at entry: the first k, or some
\* with gaps
TakenSets ==
    {0..(k - 1) : k \in 0..MaxTaken} \cup {{1}, {0, 2}, {1, 2}, {0, 1, 3}}

\* other symbols of the object file: an ordinary one, init names of another
\* file, and names that differ from an init name in the digits only
OtherSymbols(file) ==
    {<<"m", "a", "i", "n">>,
     InitSymString(<<"b">>, 0),
     <<"$.">> \o file \o <<".__inits.", "0", "0">>,
     <<"$.">> \o file \o <<".__inits.">>}

\* the flags the symbols have at entry
EntryFlags(names) ==
    [s \in names |-> IF Len(s) % 2 = 0 THEN "Exported" ELSE "Weak"]

\* the call addInitSymbol(I, ES, ObjFileName) at its first statement, as
\* the get...ObjectFileSymbolInfo functions make it: I has its symbols and
\* no init symbol; entry is a ghost, I.SymbolFlags at the call
InitAddInit ==
    /\ \E file \in ObjFileNames, taken \in TakenSets :
       \E others \in SUBSET OtherSymbols(file) :
          LET flags == EntryFlags({InitSymString(file, n) : n \in taken}
                                  \cup others)
          IN ofi = [I |-> [SymbolFlags |-> flags, InitSymbol |-> NoSymbol],
                    ObjFileName |-> file, Counter |-> 0, pc |-> "do",
                    entry |-> flags]
    /\ toplevel = FALSE
    /\ module = NewModule
    /\ sparam_vals = NoSparams
    /\ tasks = <<>>
    /\ stmts = <<>>
    /\ src = "code_info"
    /\ mi = "mi"
    /\ locals = NoLocals
    /\ init_locals = locals
    /\ ip = 0
    /\ frames = <<NewFrame>>
    /\ eh = 0
    /\ continue_at = 0
    /\ excstack = <<>>
    /\ status = "run"
    /\ result = NULL
    /\ ndebug \in BOOLEAN
    /\ wm = <<>>
    /\ cleared = {}
    /\ last = [op |-> "", ip |-> -1, frame |-> 0, out |-> "", nxt |-> -1]
    /\ expr = NullOp
    /\ dl = {}
    /\ fx = <<>>
    /\ bt = <<>>
    /\ phirun = <<>>

\* one round of the do-while loop; the round that finds the name unused
\* goes on to flag it and ends the call
addInitSymbol ==
    /\ ofi.pc = "do"
    /\ LET InitSymbol == intern(InitSymString(ofi.ObjFileName, ofi.Counter))
           flags == ofi.I.SymbolFlags
       IN IF count(flags, InitSymbol) # 0
          THEN ofi' = [ofi EXCEPT !.I.InitSymbol = InitSymbol,
                                  !.Counter = @ + 1]
          ELSE ofi' = [ofi EXCEPT
                          !.I.InitSymbol = InitSymbol,
                          !.Counter = @ + 1,
                          !.I.SymbolFlags =
                              [s \in DOMAIN flags \cup {InitSymbol} |->
                                  IF s = InitSymbol
                                  THEN MaterializationSideEffectsOnly
                                  ELSE flags[s]],
                          !.pc = "done"]
    /\ UNCHANGED <<stmts, locals, ip, frames, eh, continue_at, excstack, status,
                   result, ndebug, init_locals, wm, cleared, last, src, mi,
                   expr, dl, fx, bt, tasks, phirun, toplevel, module,
                   sparam_vals>>

NextAddInit == addInitSymbol

\* the thread that called addInitSymbol keeps running
SpecAddInit == InitAddInit /\ [][NextAddInit]_vars /\ WF_vars(NextAddInit)

\* the call has returned with counter n: the init symbol is the name of n,
\* which was no key at entry while the names of all smaller counters were;
\* the table is the one at entry plus that name, flagged
\* materialization-side-effects-only
AddedExactly(n) ==
    LET name == <<"$.">> \o ofi.ObjFileName \o <<".__inits.">> \o Decimal(n)
    IN /\ ofi.I.InitSymbol = name
       /\ name \notin DOMAIN ofi.entry
       /\ \A m \in 0..(n - 1) :
             <<"$.">> \o ofi.ObjFileName \o <<".__inits.">> \o Decimal(m)
                 \in DOMAIN ofi.entry
       /\ DOMAIN ofi.I.SymbolFlags = DOMAIN ofi.entry \cup {name}
       /\ ofi.I.SymbolFlags[name] = MaterializationSideEffectsOnly
       /\ \A s \in DOMAIN ofi.entry : ofi.I.SymbolFlags[s] = ofi.entry[s]

\* C40: addInitSymbol always terminates; the init symbol it leaves is
\* "$.<object file name>.__inits.<n>" for the smallest n >= 0 whose name
\* was not a key of the symbol table, it adds that one entry, flagged
\* materialization-side-effects-only, and every entry the table had keeps
\* its flags.
C40_AddInitSymbol ==
    /\ [](ofi.pc = "done" => AddedExactly(ofi.Counter - 1))
    /\ <>(ofi.pc = "done")

\* the names of the counters 0 to 9 were taken: the call has returned with
\* a counter of two digits
C40_Witness ==
    /\ ofi.pc = "done"
    /\ ofi.Counter = 11
    /\ ofi.I.InitSymbol[Len(ofi.I.InitSymbol)] = "0"
    /\ <<"$.">> \o ofi.ObjFileName \o <<".__inits.", "0", "0">>
           \in DOMAIN ofi.entry

====
